---- MODULE Spec2Model ----
(***************************************************************************)
(* A model of the Twilio Media Streams transport of omnivoice-twilio      *)
(* (package transport): the Provider (connection registry), the           *)
(* Connection with its receive loop (readLoop), send loop (writeLoop) and  *)
(* Close, and the two audio buffers (audioWriter, audioReader).            *)
(*                                                                         *)
(* Every action is one shared-memory operation of the Go code: a channel   *)
(* send, receive or close, a critical section of a mutex, a socket call.   *)
(* Purely local computation is folded into the preceding operation.        *)
(* A Go panic that nothing recovers ends the process: env.crashed.         *)
(***************************************************************************)
EXTENDS Integers, Sequences, FiniteSets, TLC

\* ---------------------------------------------------------------- bounds
MaxAccepts == 1
MaxFrames == 2
MaxClosers == 2
MaxWrites == 2
MaxListens == 2
MaxProviderCloses == 1
MaxAudio == 2
MaxChunks == 102
MaxReads == 2
MaxReadLen == 2
MaxCalls == 2
MaxCallbacks == 2
MaxHangups == 1
MaxControls == 2

\* ------------------------------------------------------ program constants
EventsCap == 100
AudioInCap == 100
AudioOutCap == 100
ListenerCap == 10

\* Enough connections to fill a listener's queue, overflow it and deliver
\* one more to a second queue.
MaxConns == ListenerCap + 2
Conns == 1..MaxConns
NoConn == 0
Addrs == {"/media-stream"}
ChanIds == 1..MaxListens
NoChan == 0
StartIds == {<<"MZ1", "CA1">>, <<"MZ2", "CA2">>}
StreamSIDs == {p[1] : p \in StartIds}
Digits == {"5", "#"}
\* Audio chunks are byte sequences; the k-th chunk of a stream is two bytes
\* that occur in no other chunk. A nil slice is the empty sequence.
NoChunk == <<>>
Chunk(k) == <<2 * k - 1, 2 * k>>

\* ------------------------------------------------------------- the state
VARIABLES
  conn,      \* [Live -> Connection fields, its channels and its socket]
  audioIn,   \* [Live -> audioWriter]
  audioOut,  \* [Live -> audioReader]
  prov,      \* Provider: mu, connections, listeners, dtmfHandler, the listener channels
  rl,        \* [Live -> the readLoop goroutine]
  wl,        \* [Live -> the writeLoop goroutine]
  app,       \* [Live -> the application's calls on the connection]
  pcl,       \* the application's call of Provider.Close
  hw,        \* the HTTP handler's call of Provider.HandleWebSocket
  env,       \* the peer, the budgets of the environment, the crash flag
  cs         \* the call-system Provider, its Call objects and the calls on them

vars == <<conn, audioIn, audioOut, prov, rl, wl, app, pcl, hw, env, cs>>

\* The connections HandleWebSocket has created so far.
Live == DOMAIN conn

\* ------------------------------------------------- wire frames and events
\* A frame is the bytes of one WebSocket message: json says whether they
\* decode into a mediaMessage, body whether the nested object that the
\* event needs (start, media, dtmf) is present. The payload of a media frame
\* is text: b64 says whether it is valid base64, chunk is what it decodes to.
Frame(e, s, k, ch, d) ==
  [event |-> e, streamSid |-> s, callSid |-> k, chunk |-> ch, digit |-> d,
   json |-> TRUE, body |-> TRUE, b64 |-> TRUE]

ConnectedFrame == Frame("connected", "", "", NoChunk, "")
StartFrame(p) == Frame("start", p[1], p[2], NoChunk, "")
MediaFrame(ch) == Frame("media", "", "", ch, "")
DTMFFrame(d) == Frame("dtmf", "", "", NoChunk, d)
StopFrame == Frame("stop", "", "", NoChunk, "")
MarkFrame == Frame("mark", "", "", NoChunk, "")
NoFrame == Frame("", "", "", NoChunk, "")
GarbageFrame == [NoFrame EXCEPT !.json = FALSE]
UnknownFrame == Frame("bogus", "", "", NoChunk, "")
BareFrame(e) == [Frame(e, "", "", NoChunk, "") EXCEPT !.body = FALSE]
\* a media frame whose payload is not base64 (what the text holds is not audio)
BadPayload == <<0>>
BadMediaFrame == [MediaFrame(BadPayload) EXCEPT !.b64 = FALSE]
MalformedFrames ==
  {GarbageFrame, UnknownFrame, BareFrame("start"), BareFrame("media"), BareFrame("dtmf"),
   MediaFrame(NoChunk)}

Event(t, d) == [type |-> t, data |-> d]
EventTypes(q) == [i \in 1..Len(q) |-> q[i].type]

\* The frames the peer may send next. The peer of Spec is arbitrary
\* ("any"); a scripted peer sends connected, start, media*, dtmf, stop
\* ("p0".."p3"), media only, or malformed frames and then stop ("m0").
PeerOffers(p, nextChunk) ==
  CASE p = "any" -> {ConnectedFrame, StopFrame, MarkFrame, MediaFrame(nextChunk)}
                      \cup {StartFrame(x) : x \in StartIds}
                      \cup {DTMFFrame(d) : d \in Digits}
                      \cup MalformedFrames
    [] p = "p0" -> {ConnectedFrame}
    [] p = "p1" -> {StartFrame(x) : x \in StartIds}
    [] p = "p2" -> {MediaFrame(nextChunk)} \cup {DTMFFrame(d) : d \in Digits}
    [] p = "p3" -> {StopFrame}
    [] p = "media" -> {MediaFrame(nextChunk)}
    [] p = "m0" -> MalformedFrames \cup {StopFrame}
    [] p = "s0" -> {StartFrame(x) : x \in StartIds}
    [] p = "c0" -> {ConnectedFrame}
    [] p = "b0" -> {MediaFrame(nextChunk), BadMediaFrame}
    [] OTHER -> {}

PeerAdvance(p, f) ==
  CASE p = "any" -> "any"
    [] p = "p0" -> "p1"
    [] p = "p1" -> "p2"
    [] p = "p2" -> IF f.event = "dtmf" THEN "p3" ELSE "p2"
    [] p = "p3" -> "p4"
    [] p = "m0" -> IF f.event = "stop" THEN "m1" ELSE "m0"
    [] p = "s0" -> "s1"
    [] OTHER -> p

\* ------------------------------------------------------------ initial state
NewAudioWriter == [ch |-> <<>>, closed |-> FALSE, mu |-> "free", nclose |-> 0]
NewAudioReader == [ch |-> <<>>, closed |-> FALSE, buffer |-> <<>>, nclose |-> 0]

NoConnection ==
  [made |-> FALSE, streamSID |-> "", callSID |-> "", closed |-> FALSE,
   once |-> "idle", runner |-> "",
   doneClosed |-> FALSE, events |-> <<>>, eventsClosed |-> FALSE, wsClosed |-> FALSE,
   nclose |-> [done |-> 0, events |-> 0, ws |-> 0, del |-> 0, runs |-> 0]]

NewProvider ==
  [mu |-> "free",
   connections |-> [s \in StreamSIDs |-> NoConn],
   listeners |-> [a \in Addrs |-> NoChan],
   dtmfHandler |-> FALSE, before |-> [c \in Conns |-> 0],
   chans |-> [i \in ChanIds |-> [made |-> FALSE, q |-> <<>>, closed |-> FALSE, closer |-> 0]],
   nchans |-> 0]

\* exit is the return statement the loop left through: "signal" (c.done),
\* "normal" or "abnormal" (read failure), "stop" (stop frame).
NoLoop == [pc |-> "none", msg |-> NoFrame, evq |-> <<>>, next |-> "", panic |-> FALSE, exit |-> ""]
\* taken are the chunks the send loop has received from audioIn.ch, r_log
\* the bytes the application's Read calls have returned, in order.
NoWriteLoop == [pc |-> "none", audio |-> NoChunk, sid |-> "", sent |-> <<>>, taken |-> <<>>]
NoApp == [closeIn |-> 0, closeRet |-> 0,
          w_pc |-> "idle", w_p |-> NoChunk, w_n |-> 0, w_err |-> "", w_late |-> FALSE,
          w_orphan |-> FALSE,
          nwrites |-> 0,
          r_pc |-> "idle", r_len |-> 0, r_n |-> 0, r_got |-> <<>>, r_err |-> "", r_late |-> FALSE,
          nreads |-> 0, r_log |-> <<>>,
          c_pc |-> "idle", c_msg |-> [event |-> "", streamSid |-> ""], c_late |-> FALSE,
          c_err |-> "", c_sent |-> <<>>]

Budget(frames, accepts, closers, writes, listens, pcloses) ==
  [frames |-> frames, accepts |-> accepts, closers |-> closers, writes |-> writes,
   listens |-> listens, pcloses |-> pcloses, reads |-> MaxReads,
   makes |-> 0, webhooks |-> 0, callbacks |-> 0, hangups |-> 0, lists |-> 0,
   attaches |-> 0, answers |-> 0, cscloses |-> 0, wcloses |-> 0, controls |-> 0, statuses |-> 0]

\* The call system. A Call object is numbered by its creation; calls maps a
\* call SID to the object tracked under it.
CallSIDs == {"CA1", "CA2"}
CallObjs == 1..MaxCalls
NoCall == 0
Froms == {"", "+15550100"}
TwilioStatuses ==
  {"queued", "ringing", "in-progress", "completed", "busy", "no-answer", "failed",
   "canceled", "initiated"}

\* the statuses Twilio reports for a call it has just created
NewCallStatuses == {"queued", "ringing", "in-progress"}

NoCallObject ==
  [made |-> FALSE, id |-> "", status |-> "", transport |-> NoConn, mu |-> "free"]

\* callsystem.New with (or without) WithPhoneNumber(d)
NewCallSystem(d) ==
  [mu |-> "free", defaultFrom |-> d,
   calls |-> [sid \in CallSIDs |-> NoCall],
   call |-> [o \in CallObjs |-> NoCallObject],
   ncalls |-> 0, nreq |-> 0,
   mk |-> [pc |-> "idle", o |-> NoCall, from |-> "", res |-> ""],
   hu |-> [pc |-> "idle", o |-> NoCall, res |-> "", err |-> FALSE],
   cb |-> [sid |-> "", status |-> ""],
   wh |-> [sid |-> "", err |-> FALSE, call |-> NoCall, twiml |-> ""],
   st |-> [pc |-> "idle", o |-> NoCall, got |-> "", raced |-> FALSE],
   ls |-> [n |-> 0, got |-> {}],
   cl |-> [pc |-> "idle", seen |-> {}, todo |-> {}, cur |-> NoCall, hung |-> {},
           failed |-> {}, returned |-> 0]]

\* `pre` are the connections HandleWebSocket has already accepted, peers[c]
\* is the behaviour of the peer of connection c.
InitTransport(peers, b, pre) ==
  /\ conn = [c \in pre |-> [NoConnection EXCEPT !.made = TRUE]]
  /\ audioIn = [c \in pre |-> NewAudioWriter]
  /\ audioOut = [c \in pre |-> NewAudioReader]
  /\ prov = NewProvider
  /\ rl = [c \in pre |-> [NoLoop EXCEPT !.pc = "top"]]
  /\ wl = [c \in pre |-> [NoWriteLoop EXCEPT !.pc = "select"]]
  /\ app = [c \in pre |-> NoApp]
  /\ pcl = [pc |-> "idle", todo |-> {}, cur |-> NoConn, ltodo |-> {}, seen |-> {}, returned |-> 0]
  /\ hw = [pc |-> "idle", c |-> NoConn, path |-> "", listener |-> NoChan,
           gen |-> [c \in Conns |-> 0], res |-> [c \in Conns |-> ""]]
  /\ env = [peer |-> peers, left |-> b, crashed |-> FALSE, panicAt |-> "",
            nmedia |-> [c \in Conns |-> 0], badAt |-> [c \in Conns |-> {}],
            hcalls |-> [c \in Conns |-> <<>>]]

InitPeers(peers, b, pre) == InitTransport(peers, b, pre) /\ cs = NewCallSystem("")

InitWith(p, b, pre) == InitPeers([c \in Conns |-> p], b, pre)

Init == InitWith("any", Budget(MaxFrames, MaxAccepts, MaxClosers, 0, 0, MaxProviderCloses), {})

Running == ~env.crashed

\* a step of, or a call on, connection c: the process runs and
\* HandleWebSocket has created c
Alive(c) == Running /\ c \in Live

Crash(site) == env' = [env EXCEPT !.crashed = TRUE, !.panicAt = site]

Spend(what) == env' = [env EXCEPT !.left[what] = @ - 1]

\* ------------------------------------------------------- Connection.Close
\* sync.Once: once is "idle" (never run), "s1".."s7" (the function passed to
\* Do is running and stands before that step) or "done".

\* The end of closeOnce.Do: the Once is marked done.
OnceFinishReset(c) == "idle"
OnceFinish(c) == "done"

\* The statements of the function passed to closeOnce.Do, in program order.
CloseOrderSocketFirst ==
  <<"closed", "done", "audioIn", "audioOut", "socket", "events", "registry">>
CloseOrder ==
  <<"closed", "done", "audioIn", "audioOut", "events", "socket", "registry">>

StepNames == <<"s1", "s2", "s3", "s4", "s5", "s6", "s7">>
StepPos(n) == CHOOSE i \in DOMAIN CloseOrder : CloseOrder[i] = n

\* the teardown of c stands before statement n
AtStep(c, n) == conn[c].once = StepNames[StepPos(n)]

\* the position after statement n: the next statement, or the end of Do
AfterStep(c, n) ==
  IF StepPos(n) = Len(CloseOrder) THEN OnceFinish(c) ELSE StepNames[StepPos(n) + 1]

\* c.Close() is called by `who`: closeOnce.Do either starts the teardown
\* (first caller) or waits for the running one to finish.
CallClose(c, who) ==
  IF conn[c].once = "idle"
    THEN conn' = [conn EXCEPT ![c].once = "s1", ![c].runner = who, ![c].nclose.runs = @ + 1]
    ELSE UNCHANGED conn

CloseReturned(c) == conn[c].once = "done"

\* c.mu.Lock(); c.closed = true; c.mu.Unlock()
TD_MarkClosed(c) ==
  /\ Alive(c) /\ AtStep(c, "closed")
  /\ conn' = [conn EXCEPT ![c].closed = TRUE, ![c].once = AfterStep(c, "closed")]
  /\ UNCHANGED <<audioIn, audioOut, prov, rl, wl, app, pcl, hw, env, cs>>

\* close(c.done); closing a closed channel panics
TD_CloseDone(c) ==
  /\ Alive(c) /\ AtStep(c, "done")
  /\ IF conn[c].doneClosed
       THEN Crash("close(done)") /\ UNCHANGED conn
       ELSE /\ conn' = [conn EXCEPT ![c].doneClosed = TRUE, ![c].nclose.done = @ + 1, ![c].once = AfterStep(c, "done")]
            /\ UNCHANGED env
  /\ UNCHANGED <<audioIn, audioOut, prov, rl, wl, app, pcl, hw, cs>>

\* audioWriter.Close, called by the application or by Connection.Close:
\* under w.mu, close the channel unless already closed.
AudioWriterClose(c) ==
  /\ audioIn[c].mu = "free"
  /\ audioIn' = [audioIn EXCEPT ![c].closed = TRUE,
                                ![c].nclose = IF audioIn[c].closed THEN @ ELSE @ + 1]

\* The application calls conn.AudioIn().Close().
App_CloseAudioIn(c) ==
  /\ Alive(c) /\ conn[c].made
  /\ env.left.wcloses > 0
  /\ AudioWriterClose(c)
  /\ Spend("wcloses")
  /\ UNCHANGED <<conn, audioOut, prov, rl, wl, app, pcl, hw, cs>>

\* _ = c.audioIn.Close()
TD_CloseAudioIn(c) ==
  /\ Alive(c) /\ AtStep(c, "audioIn")
  /\ AudioWriterClose(c)
  /\ conn' = [conn EXCEPT ![c].once = AfterStep(c, "audioIn")]
  /\ UNCHANGED <<audioOut, prov, rl, wl, app, pcl, hw, env, cs>>

\* c.audioOut.close(): close(r.ch), no guard
TD_CloseAudioOut(c) ==
  /\ Alive(c) /\ AtStep(c, "audioOut")
  /\ IF audioOut[c].closed
       THEN Crash("close(audioOut.ch)") /\ UNCHANGED <<conn, audioOut>>
       ELSE /\ audioOut' = [audioOut EXCEPT ![c].closed = TRUE, ![c].nclose = @ + 1]
            /\ conn' = [conn EXCEPT ![c].once = AfterStep(c, "audioOut")]
            /\ UNCHANGED env
  /\ UNCHANGED <<audioIn, prov, rl, wl, app, pcl, hw, cs>>

\* close(c.events)
TD_CloseEvents(c) ==
  /\ Alive(c) /\ AtStep(c, "events")
  /\ IF conn[c].eventsClosed
       THEN Crash("close(events)") /\ UNCHANGED conn
       ELSE /\ conn' = [conn EXCEPT ![c].eventsClosed = TRUE, ![c].nclose.events = @ + 1, ![c].once = AfterStep(c, "events")]
            /\ UNCHANGED env
  /\ UNCHANGED <<audioIn, audioOut, prov, rl, wl, app, pcl, hw, cs>>

\* _ = c.wsConn.Close()
TD_CloseSocket(c) ==
  /\ Alive(c) /\ AtStep(c, "socket")
  /\ conn' = [conn EXCEPT ![c].wsClosed = TRUE, ![c].nclose.ws = @ + 1, ![c].once = AfterStep(c, "socket")]
  /\ UNCHANGED <<audioIn, audioOut, prov, rl, wl, app, pcl, hw, env, cs>>

\* c.provider.mu.Lock(); delete(c.provider.connections, c.streamSID); Unlock()
\* and the end of closeOnce.Do
TD_Deregister(c) ==
  /\ Alive(c) /\ AtStep(c, "registry")
  /\ prov.mu = "free"
  /\ prov' = IF conn[c].streamSID \in StreamSIDs
               THEN [prov EXCEPT !.connections[conn[c].streamSID] = NoConn]
               ELSE prov
  /\ conn' = [conn EXCEPT ![c].nclose.del = @ + 1, ![c].once = AfterStep(c, "registry")]
  /\ UNCHANGED <<audioIn, audioOut, rl, wl, app, pcl, hw, env, cs>>

\* The application calls conn.Close() (any number of concurrent callers).
App_CallClose(c) ==
  /\ Alive(c) /\ conn[c].made
  /\ env.left.closers > 0
  /\ CallClose(c, "app")
  /\ app' = [app EXCEPT ![c].closeIn = @ + 1]
  /\ Spend("closers")
  /\ UNCHANGED <<audioIn, audioOut, prov, rl, wl, pcl, hw, cs>>

\* Connection.Close returns nil to an application caller.
App_CloseReturn(c) ==
  /\ Alive(c) /\ app[c].closeIn > 0
  /\ CloseReturned(c)
  /\ app' = [app EXCEPT ![c].closeIn = @ - 1, ![c].closeRet = @ + 1]
  /\ UNCHANGED <<conn, audioIn, audioOut, prov, rl, wl, pcl, hw, env, cs>>

\* ---------------------------------------------------------- the Provider
\* p.listeners[addr] = connCh: the entry after Listen
ListenEntryKeep(old, id) == IF old = NoChan THEN id ELSE old
ListenEntry(old, id) == id

\* Listen: a new channel replaces the address's entry.
Listen(a) ==
  /\ Running /\ env.left.listens > 0
  /\ prov.mu = "free"
  /\ LET id == prov.nchans + 1 IN
       prov' = [prov EXCEPT !.nchans = id, !.chans[id].made = TRUE,
                            !.listeners[a] = ListenEntry(@, id)]
  /\ Spend("listens")
  /\ UNCHANGED <<conn, audioIn, audioOut, rl, wl, app, pcl, hw, cs>>

\* HandleWebSocket up to the start of the two loops (the upgrade succeeded).
HW_Accept(c, path) ==
  /\ Running /\ hw.pc = "idle"
  /\ env.left.accepts > 0
  /\ c \notin Live /\ \A d \in Conns : d < c => d \in Live
  /\ conn' = conn @@ (c :> [NoConnection EXCEPT !.made = TRUE])
  /\ audioIn' = audioIn @@ (c :> NewAudioWriter)
  /\ audioOut' = audioOut @@ (c :> NewAudioReader)
  /\ app' = app @@ (c :> NoApp)
  /\ rl' = rl @@ (c :> [NoLoop EXCEPT !.pc = "top"])
  /\ wl' = wl @@ (c :> [NoWriteLoop EXCEPT !.pc = "select"])
  /\ hw' = [hw EXCEPT !.pc = "lookup", !.c = c, !.path = path, !.listener = NoChan,
                      !.gen[c] = prov.nchans]
  /\ Spend("accepts")
  /\ UNCHANGED <<prov, pcl, cs>>

\* p.mu.RLock(); listener, ok := p.listeners[listenerPath]; p.mu.RUnlock()
HW_Lookup ==
  /\ Running /\ hw.pc = "lookup"
  /\ prov.mu = "free"
  /\ hw' = IF prov.listeners[hw.path] = NoChan
             THEN [hw EXCEPT !.pc = "idle", !.res[hw.c] = "nolistener"]
             ELSE [hw EXCEPT !.pc = "notify", !.listener = prov.listeners[hw.path]]
  /\ UNCHANGED <<conn, audioIn, audioOut, prov, rl, wl, app, pcl, env, cs>>

\* the queue after select { case listener <- conn: default: }
TrySendEvict(q, c) == IF Len(q) < ListenerCap THEN Append(q, c) ELSE Append(Tail(q), c)
TrySend(q, c) == IF Len(q) < ListenerCap THEN Append(q, c) ELSE q

\* select { case listener <- conn: default: }; return nil. A send on a
\* closed channel panics.
HW_Notify ==
  /\ Running /\ hw.pc = "notify"
  /\ LET l == prov.chans[hw.listener] IN
       IF l.closed
         THEN Crash("listener <- conn") /\ UNCHANGED prov
         ELSE /\ prov' = [prov EXCEPT !.chans[hw.listener].q = TrySend(@, hw.c)]
              /\ UNCHANGED env
  /\ hw' = [hw EXCEPT !.pc = "idle",
                      !.res[hw.c] = IF Len(prov.chans[hw.listener].q) < ListenerCap
                                      THEN "sent" ELSE "full"]
  /\ UNCHANGED <<conn, audioIn, audioOut, rl, wl, app, pcl, cs>>

NumEvents(c, t) == Cardinality({i \in 1..Len(conn[c].events) : conn[c].events[i].type = t})

\* The DTMF frames of connection c that the receive loop has finished with.
DTMFDone(c) == NumEvents(c, "DTMF") - (IF rl[c].pc = "handler" THEN 1 ELSE 0)

\* OnDTMF registers the handler (before remembers how many DTMF frames
\* each connection had finished by then).
OnDTMF ==
  /\ Running /\ ~prov.dtmfHandler
  /\ prov.mu = "free"
  /\ prov' = [prov EXCEPT !.dtmfHandler = TRUE, !.before = [c \in Conns |-> IF c \in Live THEN DTMFDone(c) ELSE 0]]
  /\ UNCHANGED <<conn, audioIn, audioOut, rl, wl, app, pcl, hw, env, cs>>

\* Provider.Close: p.mu.Lock() (held until the return)
EnterProviderClose ==
  /\ pcl.pc = "idle"
  /\ prov.mu = "free"
  /\ prov' = [prov EXCEPT !.mu = "Provider.Close"]
  /\ pcl' = [pcl EXCEPT !.pc = "conns",
                        !.seen = Live,
                        !.todo = {s \in StreamSIDs : prov.connections[s] # NoConn},
                        !.ltodo = {a \in Addrs : prov.listeners[a] # NoChan}]

\* the application calls the transport Provider's Close
PC_Lock ==
  /\ Running
  /\ env.left.pcloses > 0
  /\ EnterProviderClose
  /\ Spend("pcloses")
  /\ UNCHANGED <<conn, audioIn, audioOut, rl, wl, app, hw, cs>>

\* for _, conn := range p.connections { _ = conn.Close() }: the call
PC_CallClose(s) ==
  /\ Running /\ pcl.pc = "conns"
  /\ s \in pcl.todo
  /\ CallClose(prov.connections[s], "Provider.Close")
  /\ pcl' = [pcl EXCEPT !.pc = "call", !.todo = @ \ {s}, !.cur = prov.connections[s]]
  /\ UNCHANGED <<audioIn, audioOut, prov, rl, wl, app, hw, env, cs>>

\* conn.Close() returns to Provider.Close
PC_CloseReturn ==
  /\ Running /\ pcl.pc = "call"
  /\ CloseReturned(pcl.cur)
  /\ pcl' = [pcl EXCEPT !.pc = "conns", !.cur = NoConn]
  /\ UNCHANGED <<conn, audioIn, audioOut, prov, rl, wl, app, hw, env, cs>>

\* for _, ch := range p.listeners { close(ch) }
PC_CloseListener(a) ==
  /\ Running /\ pcl.pc = "conns" /\ pcl.todo = {}
  /\ a \in pcl.ltodo
  /\ LET id == prov.listeners[a] IN
       IF prov.chans[id].closed
         THEN Crash("close(listener)") /\ UNCHANGED prov
         ELSE /\ prov' = [prov EXCEPT !.chans[id].closed = TRUE,
                                      !.chans[id].closer = pcl.returned + 1]
              /\ UNCHANGED env
  /\ pcl' = [pcl EXCEPT !.ltodo = @ \ {a}]
  /\ UNCHANGED <<conn, audioIn, audioOut, rl, wl, app, hw, cs>>

\* p.listeners = make(map[string]chan transport.Connection)
KeptListeners == prov.listeners
ClearedListeners == [a \in Addrs |-> NoChan]

\* both maps are replaced by empty ones; the deferred p.mu.Unlock(); return nil
PC_Return ==
  /\ Running /\ pcl.pc = "conns" /\ pcl.todo = {} /\ pcl.ltodo = {}
  /\ prov' = [prov EXCEPT !.connections = [s \in StreamSIDs |-> NoConn],
                          !.listeners = ClearedListeners,
                          !.mu = "free"]
  /\ pcl' = [pcl EXCEPT !.pc = "idle", !.returned = @ + 1]
  /\ UNCHANGED <<conn, audioIn, audioOut, rl, wl, app, hw, env, cs>>


\* ------------------------------------------------------------ readLoop
\* case "stop": the two events, in the order they are sent
StopEventsSwapped == <<Event("Disconnected", ""), Event("AudioStopped", "")>>
StopEvents == <<Event("AudioStopped", ""), Event("Disconnected", "")>>

\* The frames the loop drops without effect: json.Unmarshal fails
\* (continue), or the case's nested object is nil, or the media payload is
\* empty. (An unknown event and "mark" match no case with a body.)
\* base64.StdEncoding.DecodeString(msg.Media.Payload)
DecodeStringLenient(f) == [ok |-> TRUE, audio |-> f.chunk]
DecodeString(f) ==
  IF f.b64 THEN [ok |-> TRUE, audio |-> f.chunk] ELSE [ok |-> FALSE, audio |-> NoChunk]

DiscardedOnlyUndecodable(f) == ~f.json
Discarded(f) ==
  \/ ~f.json
  \/ f.event \in {"start", "media", "dtmf"} /\ ~f.body
  \/ f.event = "media" /\ f.chunk = NoChunk
  \/ f.event = "media" /\ ~DecodeString(f).ok

\* The receive loop's first shared operation after a frame was read.
Dispatch(c, f) ==
  CASE Discarded(f) ->
         [rl[c] EXCEPT !.pc = "top"]
    [] f.event = "connected" ->
         [rl[c] EXCEPT !.pc = "send", !.evq = <<Event("Connected", "")>>, !.next = "top"]
    [] f.event = "start" ->
         [rl[c] EXCEPT !.pc = "bind", !.msg = f]
    [] f.event = "media" ->
         [rl[c] EXCEPT !.pc = "audio", !.msg = f]
    [] f.event = "dtmf" ->
         [rl[c] EXCEPT !.pc = "send", !.evq = <<Event("DTMF", f.digit)>>, !.next = "handler",
                       !.msg = f]
    [] f.event = "stop" ->
         [rl[c] EXCEPT !.pc = "send", !.evq = StopEvents, !.next = "defer", !.exit = "stop"]
    [] OTHER ->
         [rl[c] EXCEPT !.pc = "top"]

\* select { case <-c.done: return; default: }
RL_Top(c) ==
  /\ Alive(c) /\ rl[c].pc = "top"
  /\ rl' = IF conn[c].doneClosed
             THEN [rl EXCEPT ![c].pc = "defer", ![c].exit = "signal"]
             ELSE [rl EXCEPT ![c].pc = "read"]
  /\ UNCHANGED <<conn, audioIn, audioOut, prov, wl, app, pcl, hw, env, cs>>

\* c.wsConn.ReadMessage() returns a frame of the peer; json.Unmarshal and
\* the switch on msg.Event follow
RL_ReadFrame(c, f) ==
  /\ Alive(c) /\ rl[c].pc = "read"
  /\ ~conn[c].wsClosed
  /\ env.left.frames > 0
  /\ f \in PeerOffers(env.peer[c], Chunk(env.nmedia[c] + 1))
  /\ rl' = [rl EXCEPT ![c] = Dispatch(c, f)]
  /\ env' = [env EXCEPT !.left.frames = @ - 1,
                        !.peer[c] = PeerAdvance(@, f),
                        !.nmedia[c] = IF f.event = "media" /\ f.chunk # NoChunk /\ f.b64
                                        THEN @ + 1 ELSE @,
                        !.badAt[c] = IF f = BadMediaFrame THEN @ \cup {env.nmedia[c]} ELSE @]
  /\ UNCHANGED <<conn, audioIn, audioOut, prov, wl, app, pcl, hw, cs>>

\* What follows a failed ReadMessage: an Error event unless the error is a
\* CloseError with code CloseNormalClosure or CloseGoingAway; then return.
AfterReadError(c, normal) ==
  IF normal
    THEN [rl[c] EXCEPT !.pc = "defer", !.exit = "normal"]
    ELSE [rl[c] EXCEPT !.pc = "send", !.evq = <<Event("Error", "read")>>, !.next = "defer",
                       !.exit = "abnormal"]

\* ReadMessage fails because the peer closed the socket (normally or not)
\* or the network failed.
RL_ReadPeerError(c, normal) ==
  /\ Alive(c) /\ rl[c].pc = "read"
  /\ ~conn[c].wsClosed
  /\ rl' = [rl EXCEPT ![c] = AfterReadError(c, normal)]
  /\ UNCHANGED <<conn, audioIn, audioOut, prov, wl, app, pcl, hw, env, cs>>

\* ReadMessage on the socket this process closed: the net error
\* "use of closed network connection", which is no CloseError.
RL_ReadClosed(c) ==
  /\ Alive(c) /\ rl[c].pc = "read"
  /\ conn[c].wsClosed
  /\ rl' = [rl EXCEPT ![c] = AfterReadError(c, FALSE)]
  /\ UNCHANGED <<conn, audioIn, audioOut, prov, wl, app, pcl, hw, env, cs>>

\* The stream id and call id a start frame leaves in the connection.
BoundIdsKeepFirst(c, f) ==
  IF conn[c].streamSID = "" THEN <<f.streamSid, f.callSid>> ELSE <<conn[c].streamSID, conn[c].callSID>>
BoundIds(c, f) == <<f.streamSid, f.callSid>>

\* c.mu.Lock(); c.streamSID = ...; c.callSID = ...; c.mu.Unlock()
RL_Bind(c) ==
  /\ Alive(c) /\ rl[c].pc = "bind"
  /\ conn' = [conn EXCEPT ![c].streamSID = BoundIds(c, rl[c].msg)[1],
                          ![c].callSID = BoundIds(c, rl[c].msg)[2]]
  /\ rl' = [rl EXCEPT ![c].pc = "register", ![c].msg = NoFrame]
  /\ UNCHANGED <<audioIn, audioOut, prov, wl, app, pcl, hw, env, cs>>

\* c.provider.mu.Lock(); c.provider.connections[c.streamSID] = c; Unlock()
RL_Register(c) ==
  /\ Alive(c) /\ rl[c].pc = "register"
  /\ prov.mu = "free"
  /\ prov' = [prov EXCEPT !.connections[conn[c].streamSID] = c]
  /\ rl' = [rl EXCEPT ![c].pc = "send", ![c].evq = <<Event("AudioStarted", "")>>, ![c].next = "top"]
  /\ UNCHANGED <<conn, audioIn, audioOut, wl, app, pcl, hw, env, cs>>

\* c.events <- event: blocks while the channel is full, panics when it is
\* closed (the deferred c.Close() then runs before the process dies).
RL_Send(c) ==
  /\ Alive(c) /\ rl[c].pc = "send"
  /\ IF conn[c].eventsClosed
       THEN /\ rl' = [rl EXCEPT ![c].pc = "defer", ![c].panic = TRUE, ![c].evq = <<>>,
                                ![c].msg = NoFrame]
            /\ UNCHANGED conn
       ELSE /\ Len(conn[c].events) < EventsCap
            /\ conn' = [conn EXCEPT ![c].events = Append(@, Head(rl[c].evq))]
            /\ rl' = [rl EXCEPT ![c].evq = Tail(@),
                                ![c].pc = IF Len(rl[c].evq) = 1 THEN rl[c].next ELSE "send"]
  /\ UNCHANGED <<audioIn, audioOut, prov, wl, app, pcl, hw, env, cs>>

\* audioReader.write: select { case r.ch <- data: default: }
AudioReaderWriteEvict(r, data) ==
  IF Len(r.ch) < AudioOutCap THEN [r EXCEPT !.ch = Append(@, data)]
  ELSE [r EXCEPT !.ch = Append(Tail(@), data)]
AudioReaderWrite(r, data) ==
  IF Len(r.ch) < AudioOutCap THEN [r EXCEPT !.ch = Append(@, data)] ELSE r

\* case "media": base64-decode the payload, c.audioOut.write(audio);
\* a send on the closed channel panics
RL_Audio(c) ==
  /\ Alive(c) /\ rl[c].pc = "audio"
  /\ IF audioOut[c].closed
       THEN /\ rl' = [rl EXCEPT ![c].pc = "defer", ![c].panic = TRUE, ![c].msg = NoFrame]
            /\ UNCHANGED audioOut
       ELSE /\ audioOut' = [audioOut EXCEPT ![c] = AudioReaderWrite(@, DecodeString(rl[c].msg).audio)]
            /\ rl' = [rl EXCEPT ![c].pc = "top", ![c].msg = NoFrame]
  /\ UNCHANGED <<conn, audioIn, prov, wl, app, pcl, hw, env, cs>>

\* if handler != nil { handler(c, msg.DTMF.Digit) }: the calls made so far
HandlerCallsAlways(h, registered, c, d) == Append(h, <<c, d>>)
HandlerCalls(h, registered, c, d) == IF registered THEN Append(h, <<c, d>>) ELSE h

\* case "dtmf", after the event: read p.dtmfHandler under RLock, call it
\* (the handler itself is the application's and returns)
RL_Handler(c) ==
  /\ Alive(c) /\ rl[c].pc = "handler"
  /\ prov.mu = "free"
  /\ env' = [env EXCEPT !.hcalls[c] = HandlerCalls(@, prov.dtmfHandler, c, rl[c].msg.digit)]
  /\ rl' = [rl EXCEPT ![c].pc = "top", ![c].msg = NoFrame]
  /\ UNCHANGED <<conn, audioIn, audioOut, prov, wl, app, pcl, hw, cs>>

\* defer func() { _ = c.Close() }(): the call
RL_Defer(c) ==
  /\ Alive(c) /\ rl[c].pc = "defer"
  /\ CallClose(c, "readLoop")
  /\ rl' = [rl EXCEPT ![c].pc = "closing"]
  /\ UNCHANGED <<audioIn, audioOut, prov, wl, app, pcl, hw, env, cs>>

\* the deferred Close returns: the goroutine ends, or the panic it was
\* unwinding ends the process
RL_Exit(c) ==
  /\ Alive(c) /\ rl[c].pc = "closing"
  /\ CloseReturned(c)
  /\ rl' = [rl EXCEPT ![c].pc = IF rl[c].panic THEN "panicked" ELSE "done"]
  /\ IF rl[c].panic THEN Crash("readLoop") ELSE UNCHANGED env
  /\ UNCHANGED <<conn, audioIn, audioOut, prov, wl, app, pcl, hw, cs>>

\* ------------------------------------------------------------ writeLoop
\* v := <-ch on a channel that holds a value: the value received
ReceivedNewest(ch) == ch[Len(ch)]
Received(ch) == Head(ch)

\* select: case <-c.done: return
WL_Done(c) ==
  /\ Alive(c) /\ wl[c].pc = "select"
  /\ conn[c].doneClosed
  /\ wl' = [wl EXCEPT ![c].pc = "done"]
  /\ UNCHANGED <<conn, audioIn, audioOut, prov, rl, app, pcl, hw, env, cs>>

\* select: case audio := <-c.audioIn.ch (a closed, empty channel yields
\* nil); the frame is built with c.streamSID as it is now
WL_Recv(c) ==
  /\ Alive(c) /\ wl[c].pc = "select"
  /\ Len(audioIn[c].ch) > 0 \/ audioIn[c].closed
  /\ IF Len(audioIn[c].ch) > 0
       THEN /\ wl' = [wl EXCEPT ![c].pc = "check", ![c].audio = Received(audioIn[c].ch),
                                ![c].sid = conn[c].streamSID,
                                ![c].taken = Append(@, Received(audioIn[c].ch))]
            /\ audioIn' = [audioIn EXCEPT ![c].ch = Tail(@)]
       ELSE /\ wl' = [wl EXCEPT ![c].pc = "check", ![c].audio = NoChunk, ![c].sid = conn[c].streamSID]
            /\ UNCHANGED audioIn
  /\ UNCHANGED <<conn, audioOut, prov, rl, app, pcl, hw, env, cs>>

\* c.mu.RLock(); closed := c.closed; c.mu.RUnlock()
WL_Check(c) ==
  /\ Alive(c) /\ wl[c].pc = "check"
  /\ wl' = IF conn[c].closed
             THEN [wl EXCEPT ![c].pc = "select", ![c].audio = NoChunk, ![c].sid = ""]
             ELSE [wl EXCEPT ![c].pc = "write"]
  /\ UNCHANGED <<conn, audioIn, audioOut, prov, rl, app, pcl, hw, env, cs>>

\* the frames a send loop writes are counted up to MaxSent
MaxSent == MaxChunks + 1

\* c.wsConn.WriteJSON(msg) succeeds
WL_Write(c) ==
  /\ Alive(c) /\ wl[c].pc = "write"
  /\ ~conn[c].wsClosed
  /\ Len(wl[c].sent) < MaxSent
  /\ wl' = [wl EXCEPT ![c].pc = "select", ![c].audio = NoChunk, ![c].sid = "",
                      ![c].sent = Append(@, [streamSid |-> wl[c].sid, payload |-> wl[c].audio])]
  /\ UNCHANGED <<conn, audioIn, audioOut, prov, rl, app, pcl, hw, env, cs>>

\* if err := c.wsConn.WriteJSON(msg); err != nil { return }: what the
\* connection's closed flag is when the send loop has returned
ClosedAfterWriteErrorSet(c) == TRUE
ClosedAfterWriteError(c) == conn[c].closed

\* c.wsConn.WriteJSON(msg) fails (always on a closed socket): return
WL_WriteFail(c) ==
  /\ Alive(c) /\ wl[c].pc = "write"
  /\ wl' = [wl EXCEPT ![c].pc = "done", ![c].audio = NoChunk, ![c].sid = ""]
  /\ conn' = [conn EXCEPT ![c].closed = ClosedAfterWriteError(c)]
  /\ UNCHANGED <<audioIn, audioOut, prov, rl, app, pcl, hw, env, cs>>

\* ------------------------------------------------------ SendMark, Clear
ControlEvents == {"mark", "clear"}

\* SendMark or Clear up to its WriteJSON: the message is built with
\* c.streamSID as it is now; there is no check of c.closed.
App_Control(c, kind) ==
  /\ Alive(c) /\ conn[c].made /\ app[c].c_pc = "idle"
  /\ env.left.controls > 0
  /\ app' = [app EXCEPT ![c].c_pc = "writing",
                        ![c].c_msg = [event |-> kind, streamSid |-> conn[c].streamSID],
                        ![c].c_late = conn[c].wsClosed]
  /\ Spend("controls")
  /\ UNCHANGED <<conn, audioIn, audioOut, prov, rl, wl, pcl, hw, cs>>

\* return c.wsConn.WriteJSON(msg): the write succeeds, or fails (always on
\* a closed socket)
App_ControlDone(c, ok) ==
  /\ Alive(c) /\ app[c].c_pc = "writing"
  /\ ok => ~conn[c].wsClosed
  /\ app' = [app EXCEPT ![c].c_pc = "idle",
                        ![c].c_err = IF ok THEN "" ELSE "write",
                        ![c].c_sent = IF ok THEN Append(@, app[c].c_msg) ELSE @]
  /\ UNCHANGED <<conn, audioIn, audioOut, prov, rl, wl, pcl, hw, env, cs>>

\* ------------------------------------------------------ audioWriter.Write
\* The result of Write on a closed writer.
ClosedWriteAccepts(p) == [n |-> Len(p), err |-> ""]
ClosedWrite(p) == [n |-> 0, err |-> "io.ErrClosedPipe"]

\* The channel after the second select of Write (drop oldest).
EvictNewest(ch) == IF Len(ch) > 0 THEN SubSeq(ch, 1, Len(ch) - 1) ELSE ch
EvictOldest(ch) == IF Len(ch) > 0 THEN Tail(ch) ELSE ch

\* Write up to the first select: w.mu.Lock(); if w.closed return
\* (0, io.ErrClosedPipe); copy p; try to send. The application writes the
\* chunks of its stream in order.
AW_Write(c) ==
  /\ Alive(c) /\ conn[c].made /\ app[c].w_pc = "idle"
  /\ env.left.writes > 0
  /\ audioIn[c].mu = "free"
  /\ LET p == Chunk(app[c].nwrites + 1)
         a == [app[c] EXCEPT !.w_p = p, !.nwrites = @ + 1, !.w_late = CloseReturned(c),
                            !.w_orphan = wl[c].pc = "done"]
     IN
       IF audioIn[c].closed
         THEN /\ app' = [app EXCEPT ![c] = [a EXCEPT !.w_n = ClosedWrite(p).n, !.w_err = ClosedWrite(p).err]]
              /\ UNCHANGED audioIn
         ELSE IF Len(audioIn[c].ch) < AudioInCap
           THEN /\ app' = [app EXCEPT ![c] = [a EXCEPT !.w_n = Len(p), !.w_err = ""]]
                /\ audioIn' = [audioIn EXCEPT ![c].ch = Append(@, p)]
           ELSE /\ app' = [app EXCEPT ![c] = [a EXCEPT !.w_pc = "evict"]]
                /\ audioIn' = [audioIn EXCEPT ![c].mu = "Write"]
  /\ Spend("writes")
  /\ UNCHANGED <<conn, audioOut, prov, rl, wl, pcl, hw, cs>>

\* default: select { case <-w.ch: default: }
AW_Evict(c) ==
  /\ Alive(c) /\ app[c].w_pc = "evict"
  /\ audioIn' = [audioIn EXCEPT ![c].ch = EvictOldest(@)]
  /\ app' = [app EXCEPT ![c].w_pc = "send"]
  /\ UNCHANGED <<conn, audioOut, prov, rl, wl, pcl, hw, env, cs>>

\* w.ch <- data (blocking); return len(p), nil; the deferred w.mu.Unlock()
AW_Send(c) ==
  /\ Alive(c) /\ app[c].w_pc = "send"
  /\ Len(audioIn[c].ch) < AudioInCap
  /\ audioIn' = [audioIn EXCEPT ![c].ch = Append(@, app[c].w_p), ![c].mu = "free"]
  /\ app' = [app EXCEPT ![c].w_pc = "idle", ![c].w_n = Len(app[c].w_p), ![c].w_err = ""]
  /\ UNCHANGED <<conn, audioOut, prov, rl, wl, pcl, hw, env, cs>>

\* ------------------------------------------------------- audioReader.Read
ReadLens == 1..MaxReadLen

\* n = copy(p, src) with len(p) = k: the bytes copied and the bytes left
Copied(src, k) == SubSeq(src, 1, IF k < Len(src) THEN k ELSE Len(src))
Uncopied(src, k) == SubSeq(src, (IF k < Len(src) THEN k ELSE Len(src)) + 1, Len(src))

\* Read up to the channel receive: r.mu.Lock() (one reader per connection,
\* so the mutex is never contended); if len(r.buffer) > 0, copy from it and
\* return (n, nil); otherwise wait on r.ch.
AR_Call(c, k) ==
  /\ Alive(c) /\ conn[c].made /\ app[c].r_pc = "idle"
  /\ env.left.reads > 0
  /\ LET a == [app[c] EXCEPT !.nreads = @ + 1, !.r_len = k, !.r_late = CloseReturned(c)] IN
       IF Len(audioOut[c].buffer) > 0
         THEN /\ app' = [app EXCEPT ![c] = [a EXCEPT !.r_got = Copied(audioOut[c].buffer, k),
                                                     !.r_n = Len(Copied(audioOut[c].buffer, k)),
                                                     !.r_err = "",
                                                     !.r_log = @ \o Copied(audioOut[c].buffer, k)]]
              /\ audioOut' = [audioOut EXCEPT ![c].buffer = Uncopied(@, k)]
         ELSE /\ app' = [app EXCEPT ![c] = [a EXCEPT !.r_pc = "recv"]]
              /\ UNCHANGED audioOut
  /\ Spend("reads")
  /\ UNCHANGED <<conn, audioIn, prov, rl, wl, pcl, hw, cs>>

\* data, ok := <-r.ch: a chunk if one is queued (also in a closed channel),
\* ok = false once the channel is closed and empty: return (0, io.EOF).
\* Otherwise copy, keep the rest in r.buffer, return (n, nil).
AR_Recv(c) ==
  /\ Alive(c) /\ app[c].r_pc = "recv"
  /\ Len(audioOut[c].ch) > 0 \/ audioOut[c].closed
  /\ IF Len(audioOut[c].ch) > 0
       THEN LET data == Received(audioOut[c].ch) IN
              /\ app' = [app EXCEPT ![c].r_pc = "idle", ![c].r_got = Copied(data, app[c].r_len),
                                    ![c].r_n = Len(Copied(data, app[c].r_len)), ![c].r_err = "",
                                    ![c].r_log = @ \o Copied(data, app[c].r_len)]
              /\ audioOut' = [audioOut EXCEPT ![c].ch = Tail(@),
                                              ![c].buffer = Uncopied(data, app[c].r_len)]
       ELSE /\ app' = [app EXCEPT ![c].r_pc = "idle", ![c].r_got = <<>>, ![c].r_n = 0,
                                  ![c].r_err = "io.EOF"]
            /\ UNCHANGED audioOut
  /\ UNCHANGED <<conn, audioIn, prov, rl, wl, pcl, hw, env, cs>>

\* ------------------------------------------------------- the call system
\* mapCallStatus: the Twilio status as a callsystem.CallStatus
mapCallStatus(status) ==
  CASE status \in {"queued", "ringing"} -> "Ringing"
    [] status = "in-progress" -> "Answered"
    [] status = "completed" -> "Ended"
    [] status = "busy" -> "Busy"
    [] status = "no-answer" -> "NoAnswer"
    [] status \in {"failed", "canceled"} -> "Failed"
    [] OTHER -> "Ringing"

\* the statuses of a call that is over
TerminalStatuses == {"Ended", "Busy", "NoAnswer", "Failed"}

Tracked == {sid \in CallSIDs : cs.calls[sid] # NoCall}

\* from := callOpts.From; if from == "" { from = p.defaultFrom }
FromNumberOrPlaceholder(from, default) == IF from = "" THEN "+10000000000" ELSE from
FromNumber(from, default) == IF from = "" THEN default ELSE from

\* MakeCall up to the reply of Twilio. Without a from number it returns an
\* error before any request. Otherwise p.client.MakeCall posts the request;
\* on an error MakeCall returns it, else Twilio has answered with the SID
\* and the status of the new call and the Call object is built.
MakeCall(from, ok, sid, status) ==
  /\ Running /\ cs.mk.pc = "idle"
  /\ env.left.makes > 0
  /\ cs.ncalls < MaxCalls
  /\ LET o == cs.ncalls + 1 IN
       cs' = IF FromNumber(from, cs.defaultFrom) = ""
               THEN [cs EXCEPT !.mk = [pc |-> "idle", o |-> NoCall, from |-> from, res |-> "nofrom"]]
             ELSE IF ~ok
               THEN [cs EXCEPT !.nreq = @ + 1,
                               !.mk = [pc |-> "idle", o |-> NoCall, from |-> from, res |-> "failed"]]
             ELSE [cs EXCEPT !.nreq = @ + 1, !.ncalls = o,
                             !.call[o] = [NoCallObject EXCEPT !.made = TRUE, !.id = sid,
                                                              !.status = mapCallStatus(status)],
                             !.mk = [pc |-> "track", o |-> o, from |-> from, res |-> ""]]
  /\ Spend("makes")
  /\ UNCHANGED <<conn, audioIn, audioOut, prov, rl, wl, app, pcl, hw>>

\* p.mu.Lock(); p.calls[call.id] = call; p.mu.Unlock(); return call, nil
MakeCallTrack ==
  /\ Running /\ cs.mk.pc = "track"
  /\ cs.mu = "free"
  /\ cs' = [cs EXCEPT !.calls[cs.call[cs.mk.o].id] = cs.mk.o,
                      !.mk.pc = "idle", !.mk.res = "ok"]
  /\ UNCHANGED <<conn, audioIn, audioOut, prov, rl, wl, app, pcl, hw, env>>

\* HandleIncomingWebhook: a new ringing Call is tracked under the SID, then
\* the handler is called; herr says whether a handler is set and fails.
StreamTwiML == "<Response><Connect><Stream/></Connect></Response>"

HandleIncomingWebhook(sid, herr) ==
  /\ Running
  /\ env.left.webhooks > 0
  /\ cs.ncalls < MaxCalls
  /\ cs.mu = "free"
  /\ LET o == cs.ncalls + 1 IN
       cs' = [cs EXCEPT !.ncalls = o,
                        !.call[o] = [NoCallObject EXCEPT !.made = TRUE, !.id = sid,
                                                         !.status = "Ringing"],
                        !.calls[sid] = o,
                        !.wh = [sid |-> sid, err |-> herr,
                                call |-> IF herr THEN NoCall ELSE o,
                                twiml |-> IF herr THEN "" ELSE StreamTwiML]]
  /\ Spend("webhooks")
  /\ UNCHANGED <<conn, audioIn, audioOut, prov, rl, wl, app, pcl, hw>>

\* if call.status == callsystem.StatusEnded { delete(p.calls, callSID) }
RemovedOnTerminal(status) == status \in TerminalStatuses
RemovedOn(status) == status = "Ended"

\* HandleStatusCallback, under p.mu
HandleStatusCallback(sid, status) ==
  /\ Running
  /\ env.left.callbacks > 0
  /\ cs.mu = "free"
  /\ LET o == cs.calls[sid] IN
       cs' = IF o = NoCall
               THEN [cs EXCEPT !.cb = [sid |-> sid, status |-> status]]
               ELSE [cs EXCEPT !.call[o].status = mapCallStatus(status),
                               !.calls[sid] = IF RemovedOn(mapCallStatus(status))
                                                THEN NoCall ELSE o,
                               !.st.raced = @ \/ (cs.st.pc = "read" /\ cs.st.o = o),
                               !.cb = [sid |-> sid, status |-> status]]
  /\ Spend("callbacks")
  /\ UNCHANGED <<conn, audioIn, audioOut, prov, rl, wl, app, pcl, hw>>

\* Call.Answer, under c.mu
MappedStatuses == {mapCallStatus(status) : status \in TwilioStatuses}

\* Call.Status: c.mu.RLock()
St_RLock(o) ==
  /\ Running /\ cs.call[o].made
  /\ env.left.statuses > 0
  /\ cs.st.pc = "idle"
  /\ cs.call[o].mu = "free"
  /\ cs' = [cs EXCEPT !.call[o].mu = "Status", !.st = [pc |-> "read", o |-> o, got |-> "", raced |-> FALSE]]
  /\ Spend("statuses")
  /\ UNCHANGED <<conn, audioIn, audioOut, prov, rl, wl, app, pcl, hw>>

\* return c.status, with the deferred c.mu.RUnlock(). A read that raced
\* with an unlocked write of the field may return any value.
St_Return ==
  /\ Running /\ cs.st.pc = "read"
  /\ \E got \in (IF cs.st.raced THEN MappedStatuses ELSE {}) \cup {cs.call[cs.st.o].status} :
       cs' = [cs EXCEPT !.call[cs.st.o].mu = "free",
                        !.st = [@ EXCEPT !.pc = "idle", !.got = got]]
  /\ UNCHANGED <<conn, audioIn, audioOut, prov, rl, wl, app, pcl, hw, env>>

Answer(o) ==
  /\ Running /\ cs.call[o].made
  /\ env.left.answers > 0
  /\ cs.call[o].mu = "free"
  /\ cs' = [cs EXCEPT !.call[o].status = "Answered"]
  /\ Spend("answers")
  /\ UNCHANGED <<conn, audioIn, audioOut, prov, rl, wl, app, pcl, hw>>

\* Call.SetTransport, under c.mu: the media-stream connection of the call
SetTransport(o, c) ==
  /\ Alive(c) /\ cs.call[o].made
  /\ env.left.attaches > 0
  /\ cs.call[o].mu = "free"
  /\ cs' = [cs EXCEPT !.call[o].transport = c]
  /\ Spend("attaches")
  /\ UNCHANGED <<conn, audioIn, audioOut, prov, rl, wl, app, pcl, hw>>

\* ListCalls, under p.mu.RLock: every Call in p.calls, seen with the status
\* it has now
ListCalls ==
  /\ Running
  /\ env.left.lists > 0
  /\ cs.mu = "free"
  /\ cs' = [cs EXCEPT !.ls = [n |-> @.n + 1,
                              got |-> {[id |-> sid, status |-> cs.call[cs.calls[sid]].status] :
                                         sid \in Tracked}]]
  /\ Spend("lists")
  /\ UNCHANGED <<conn, audioIn, audioOut, prov, rl, wl, app, pcl, hw>>

\* Call.Hangup after a successful request: c.mu.Lock(); c.status = Ended;
\* if c.transport != nil, c.transport.Close() is called with c.mu held.
HangupEnd(o) ==
  /\ cs.call[o].mu = "free"
  /\ IF cs.call[o].transport = NoConn THEN UNCHANGED conn
     ELSE CallClose(cs.call[o].transport, "Hangup")

EndedCall(o) ==
  [cs.call[o] EXCEPT !.status = "Ended",
                     !.mu = IF cs.call[o].transport = NoConn THEN "free" ELSE "Hangup"]

\* if err != nil { return fmt.Errorf("failed to hangup: %w", err) }: whether
\* Hangup goes on after the request
HangupProceedsAlways(ok) == TRUE
HangupProceeds(ok) == ok

\* the application calls Hangup on a Call it holds:
\* c.provider.client.HangupCall posts the request; on an error Hangup
\* returns it.
Hangup(o, ok) ==
  /\ Running /\ cs.hu.pc = "idle"
  /\ cs.call[o].made
  /\ env.left.hangups > 0
  /\ cs' = [cs EXCEPT !.nreq = @ + 1,
                      !.hu = IF HangupProceeds(ok)
                               THEN [pc |-> "end", o |-> o, res |-> "", err |-> ~ok]
                               ELSE [pc |-> "idle", o |-> o, res |-> "failed", err |-> ~ok]]
  /\ Spend("hangups")
  /\ UNCHANGED <<conn, audioIn, audioOut, prov, rl, wl, app, pcl, hw>>

HU_End ==
  /\ Running /\ cs.hu.pc = "end"
  /\ HangupEnd(cs.hu.o)
  /\ cs' = [cs EXCEPT !.call[cs.hu.o] = EndedCall(cs.hu.o),
                      !.hu = IF cs.call[cs.hu.o].transport = NoConn
                               THEN [@ EXCEPT !.pc = "idle", !.res = "ok"]
                               ELSE [@ EXCEPT !.pc = "closing"]]
  /\ UNCHANGED <<audioIn, audioOut, prov, rl, wl, app, pcl, hw, env>>

\* c.transport.Close() has returned: c.mu.Unlock(); return nil
HU_Return ==
  /\ Running /\ cs.hu.pc = "closing"
  /\ CloseReturned(cs.call[cs.hu.o].transport)
  /\ cs' = [cs EXCEPT !.call[cs.hu.o].mu = "free", !.hu.pc = "idle", !.hu.res = "ok"]
  /\ UNCHANGED <<conn, audioIn, audioOut, prov, rl, wl, app, pcl, hw, env>>

\* The call system's Close: p.mu.Lock(); the calls to hang up are those
\* in p.calls
CC_Lock ==
  /\ Running /\ cs.cl.pc = "idle"
  /\ env.left.cscloses > 0
  /\ cs.mu = "free"
  /\ cs' = [cs EXCEPT !.mu = "Close",
                      !.cl = [@ EXCEPT !.pc = "calls", !.seen = {cs.calls[sid] : sid \in Tracked},
                                       !.todo = {cs.calls[sid] : sid \in Tracked},
                                       !.hung = {}, !.failed = {}]]
  /\ Spend("cscloses")
  /\ UNCHANGED <<conn, audioIn, audioOut, prov, rl, wl, app, pcl, hw>>

\* for _, call := range p.calls { _ = call.Hangup(ctx) }: the request
CC_Hangup(o, ok) ==
  /\ Running /\ cs.cl.pc = "calls"
  /\ o \in cs.cl.todo
  /\ cs' = [cs EXCEPT !.nreq = @ + 1,
                      !.cl = [@ EXCEPT !.todo = @ \ {o}, !.hung = @ \cup {o},
                                       !.failed = IF ok THEN @ ELSE @ \cup {o},
                                       !.pc = IF ok THEN "end" ELSE "calls",
                                       !.cur = IF ok THEN o ELSE NoCall]]
  /\ UNCHANGED <<conn, audioIn, audioOut, prov, rl, wl, app, pcl, hw, env>>

CC_HangupEnd ==
  /\ Running /\ cs.cl.pc = "end"
  /\ HangupEnd(cs.cl.cur)
  /\ cs' = [cs EXCEPT !.call[cs.cl.cur] = EndedCall(cs.cl.cur),
                      !.cl = IF cs.call[cs.cl.cur].transport = NoConn
                               THEN [@ EXCEPT !.pc = "calls", !.cur = NoCall]
                               ELSE [@ EXCEPT !.pc = "closing"]]
  /\ UNCHANGED <<audioIn, audioOut, prov, rl, wl, app, pcl, hw, env>>

CC_HangupReturn ==
  /\ Running /\ cs.cl.pc = "closing"
  /\ CloseReturned(cs.call[cs.cl.cur].transport)
  /\ cs' = [cs EXCEPT !.call[cs.cl.cur].mu = "free", !.cl.pc = "calls", !.cl.cur = NoCall]
  /\ UNCHANGED <<conn, audioIn, audioOut, prov, rl, wl, app, pcl, hw, env>>

\* p.calls = make(map[string]*Call)
CC_Clear ==
  /\ Running /\ cs.cl.pc = "calls" /\ cs.cl.todo = {}
  /\ cs' = [cs EXCEPT !.calls = [sid \in CallSIDs |-> NoCall], !.cl.pc = "transport"]
  /\ UNCHANGED <<conn, audioIn, audioOut, prov, rl, wl, app, pcl, hw, env>>

\* return p.transport.Close(): the call
CC_TransportClose ==
  /\ Running /\ cs.cl.pc = "transport"
  /\ EnterProviderClose
  /\ cs' = [cs EXCEPT !.cl.pc = "wait"]
  /\ UNCHANGED <<conn, audioIn, audioOut, rl, wl, app, hw, env>>

\* p.transport.Close() has returned; the deferred p.mu.Unlock()
CC_Return ==
  /\ Running /\ cs.cl.pc = "wait"
  /\ pcl.pc = "idle"
  /\ cs' = [cs EXCEPT !.mu = "free", !.cl.pc = "idle", !.cl.returned = @ + 1]
  /\ UNCHANGED <<conn, audioIn, audioOut, prov, rl, wl, app, pcl, hw, env>>

\* ------------------------------------------------------ the specifications
\* The connections that exist in the specifications with at most MaxAccepts
\* connections (HandleWebSocket creates them in order): only their
\* goroutines need scheduling.
Scheduled == 1..MaxAccepts

\* Connection.Close's teardown, by whoever runs it
CloseSteps(c) ==
  \/ TD_MarkClosed(c) \/ TD_CloseDone(c) \/ TD_CloseAudioIn(c) \/ TD_CloseAudioOut(c)
  \/ TD_CloseEvents(c) \/ TD_CloseSocket(c) \/ TD_Deregister(c)

\* the receive loop once a frame is there, and its exit
ReadLoopSteps(c) ==
  \/ RL_Top(c) \/ RL_Send(c) \/ RL_Handler(c) \/ RL_Defer(c) \/ RL_Exit(c)

\* the send loop as long as the application has written nothing
WriteLoopIdle(c) == WL_Done(c) \/ WL_Recv(c) \/ WL_Check(c)

AnyFrame(c) == \E f \in PeerOffers("any", Chunk(env.nmedia[c] + 1)) : RL_ReadFrame(c, f)

\* One accepted connection, an arbitrary peer, concurrent callers of
\* Connection.Close and a call of Provider.Close.
Next ==
  \/ \E c \in Scheduled, a \in Addrs : HW_Accept(c, a)
  \/ \E c \in Scheduled :
       \/ CloseSteps(c) \/ ReadLoopSteps(c) \/ WriteLoopIdle(c)
       \/ AnyFrame(c)
       \/ \E normal \in BOOLEAN : RL_ReadPeerError(c, normal)
       \/ RL_ReadClosed(c) \/ RL_Bind(c) \/ RL_Register(c) \/ RL_Audio(c)
       \/ App_CallClose(c) \/ App_CloseReturn(c)
  \/ HW_Lookup
  \/ PC_Lock \/ PC_CloseReturn \/ PC_Return
  \/ \E s \in StreamSIDs : PC_CallClose(s)

Spec == Init /\ [][Next]_vars

\* One accepted connection, its peer and the application closing it at any
\* time. In SpecOrder the peer sends connected, start, media x N, dtmf, stop.
ScriptFrame(c) == \E f \in PeerOffers(env.peer[c], Chunk(env.nmedia[c] + 1)) : RL_ReadFrame(c, f)

InitOrder == InitWith("p0", Budget(MaxAudio + 4, 0, 1, 0, 0, 0), {1})

NextConn ==
  \E c \in Scheduled :
    \/ CloseSteps(c) \/ ReadLoopSteps(c) \/ WriteLoopIdle(c)
    \/ ScriptFrame(c)
    \/ RL_ReadClosed(c) \/ RL_Bind(c) \/ RL_Register(c) \/ RL_Audio(c)
    \/ App_CallClose(c) \/ App_CloseReturn(c)

SpecOrder == InitOrder /\ [][NextConn]_vars

\* The peer sends malformed frames and then a stop frame.
InitMalformed == InitWith("m0", Budget(MaxFrames + 1, 0, 1, 0, 0, 0), {1})

NextMalformed ==
  \E c \in Scheduled :
    \/ CloseSteps(c) \/ WriteLoopIdle(c)
    \/ RL_Top(c) \/ ScriptFrame(c) \/ RL_Send(c) \/ RL_Defer(c) \/ RL_Exit(c)
    \/ RL_ReadClosed(c)
    \/ App_CallClose(c) \/ App_CloseReturn(c)

SpecMalformed == InitMalformed /\ [][NextMalformed]_vars

\* The registry's accept path: Listen is called up to MaxListens times,
\* HandleWebSocket is called for one connection after the other, nobody
\* takes connections from the listeners' queues. The peers of the first and
\* of the last two connections send a start frame; the receive loops of the
\* other connections are not scheduled.
ListenActive == {1, MaxConns - 1, MaxConns}
ListenPeers == [c \in Conns |-> IF c \in ListenActive THEN "s0" ELSE "idle"]

InitListen == InitPeers(ListenPeers, Budget(1, MaxConns, 0, 0, MaxListens, 0), {})

NextListen ==
  \/ \E a \in Addrs : Listen(a)
  \/ \E c \in Conns, a \in Addrs : HW_Accept(c, a)
  \/ HW_Lookup
  \/ HW_Notify
  \/ \E c \in ListenActive :
       RL_Top(c) \/ ScriptFrame(c) \/ RL_Bind(c) \/ RL_Register(c) \/ RL_Send(c)

SpecListen == InitListen /\ [][NextListen]_vars

\* The whole provider with a listener and two successive calls of
\* Provider.Close.
InitShutdown == InitWith("any", Budget(1, MaxAccepts, 1, 0, 1, MaxProviderCloses + 1), {})

NextShutdown ==
  \/ Next
  \/ \E a \in Addrs : Listen(a) \/ PC_CloseListener(a)
  \/ HW_Notify

SpecShutdown == InitShutdown /\ [][NextShutdown]_vars

\* Provider.Close after the application has called Listen more than once.
InitQueues == InitWith("any", Budget(1, MaxAccepts, 1, 0, MaxListens, MaxProviderCloses), {})

SpecQueues == InitQueues /\ [][NextShutdown]_vars

\* One connection, an arbitrary peer, and the application registering its
\* DTMF handler at any time.
InitDTMF == InitWith("any", Budget(MaxFrames, 0, 1, 0, 0, 0), {1})

NextDTMF == NextConn \/ OnDTMF

SpecDTMF == InitDTMF /\ [][NextDTMF]_vars

\* The same connection with an arbitrary peer and several concurrent
\* callers of Close.
InitClose == InitWith("any", Budget(MaxFrames, 0, MaxClosers, 0, 0, 0), {1})

SpecClose == InitClose /\ [][NextConn]_vars

\* The two audio buffers of an accepted connection under overflow: the
\* application writes its chunks, the peer sends media frames only, the
\* send loop is not scheduled and nobody reads.
InitBuf == InitWith("media", Budget(MaxChunks, 0, 0, MaxChunks, 0, 0), {1})

NextBuf ==
  \E c \in Scheduled :
    \/ AW_Write(c) \/ AW_Evict(c) \/ AW_Send(c)
    \/ RL_Top(c) \/ ScriptFrame(c) \/ RL_Audio(c)

SpecBuf == InitBuf /\ [][NextBuf]_vars

\* The application writes audio while the connection is closed under it;
\* the peer sends nothing but may drop the socket.
InitWrite == InitWith("any", Budget(0, 0, 1, MaxWrites, 0, 0), {1})

NextWrite ==
  \E c \in Scheduled :
    \/ CloseSteps(c) \/ WriteLoopIdle(c)
    \/ RL_Top(c) \/ RL_Send(c) \/ RL_Defer(c) \/ RL_Exit(c)
    \/ \E normal \in BOOLEAN : RL_ReadPeerError(c, normal)
    \/ RL_ReadClosed(c)
    \/ WL_Write(c) \/ WL_WriteFail(c)
    \/ AW_Write(c)
    \/ App_CallClose(c) \/ App_CloseReturn(c)

SpecWrite == InitWrite /\ [][NextWrite]_vars

\* The application reads inbound audio while the peer sends frames and the
\* connection is closed, by the application or by the receive loop.
InitRead == InitWith("any", Budget(MaxFrames, 0, 1, 0, 0, 0), {1})

NextRead ==
  \/ NextConn
  \/ \E c \in Scheduled :
       \/ \E k \in ReadLens : AR_Call(c, k)
       \/ AR_Recv(c)
       \/ \E normal \in BOOLEAN : RL_ReadPeerError(c, normal)

SpecRead == InitRead /\ [][NextRead]_vars

\* The peer sends one frame after another that makes an event, and the
\* application never receives from Events().
InitEvents == InitWith("c0", Budget(EventsCap + 1, 0, 0, 1, 0, 0), {1})

NextEvents ==
  \E c \in Scheduled :
    \/ RL_Top(c) \/ ScriptFrame(c) \/ RL_Send(c)
    \/ WL_Recv(c) \/ WL_Check(c) \/ WL_Write(c) \/ AW_Write(c)

SpecEvents == InitEvents /\ [][NextEvents]_vars

\* The peer sends media frames, some with a payload that is not base64;
\* the application reads the inbound audio.
InitPayload == InitWith("b0", Budget(2 * MaxAudio + 2, 0, 0, 0, 0, 0), {1})

NextPayload ==
  \E c \in Scheduled :
    \/ RL_Top(c) \/ ScriptFrame(c) \/ RL_Audio(c)
    \/ \E k \in ReadLens : AR_Call(c, k)
    \/ AR_Recv(c)

SpecPayload == InitPayload /\ [][NextPayload]_vars

\* The two audio buffers with their producers and consumers. Either the
\* application writes more chunks than the outbound buffer holds while the
\* send loop drains it, or the peer sends more audio than the inbound buffer
\* holds while the application reads, or a few chunks go both ways while the
\* application closes the connection.
InitDrain == InitWith("idle", [Budget(0, 0, 0, MaxChunks, 0, 0) EXCEPT !.reads = 0], {1})
InitFill == InitWith("media", Budget(MaxChunks, 0, 0, 0, 0, 0), {1})
InitCloseAudio == InitWith("media", Budget(MaxAudio, 0, 1, MaxWrites, 0, 0), {1})
InitAudio == InitDrain \/ InitFill \/ InitCloseAudio

NextAudio ==
  \E c \in Scheduled :
    \/ AW_Write(c) \/ AW_Evict(c) \/ AW_Send(c)
    \/ WL_Done(c) \/ WL_Recv(c) \/ WL_Check(c) \/ WL_Write(c) \/ WL_WriteFail(c)
    \/ RL_Top(c) \/ ScriptFrame(c) \/ RL_Audio(c)
    \/ RL_ReadClosed(c) \/ RL_Send(c) \/ RL_Defer(c) \/ RL_Exit(c)
    \/ \E k \in ReadLens : AR_Call(c, k)
    \/ AR_Recv(c)
    \/ CloseSteps(c) \/ App_CallClose(c) \/ App_CloseReturn(c)

SpecAudio == InitAudio /\ [][NextAudio]_vars

\* The application writes audio on a connection that nobody closes; the
\* peer sends the start frame and socket writes may fail.
InitWriteFail ==
  InitWith("s0", [Budget(1, 0, 0, MaxWrites + 1, 0, 0) EXCEPT !.reads = 0], {1})

NextWriteFail ==
  \E c \in Scheduled :
    \/ RL_Top(c) \/ ScriptFrame(c) \/ RL_Bind(c) \/ RL_Register(c) \/ RL_Send(c)
    \/ WL_Recv(c) \/ WL_Check(c) \/ WL_Write(c) \/ WL_WriteFail(c)
    \/ AW_Write(c)

SpecWriteFail == InitWriteFail /\ [][NextWriteFail]_vars

\* The application writes audio and closes the outbound writer while the
\* connection stays open.
InitWriterClose ==
  InitWith("idle", [Budget(0, 0, 0, MaxWrites, 0, 0) EXCEPT !.reads = 0, !.wcloses = 1], {1})

NextWriterClose ==
  \E c \in Scheduled :
    \/ AW_Write(c) \/ App_CloseAudioIn(c)
    \/ WL_Recv(c) \/ WL_Check(c) \/ WL_Write(c) \/ WL_WriteFail(c)
    \/ RL_Top(c)

SpecWriterClose == InitWriterClose /\ [][NextWriterClose]_vars

\* The application writes audio and sends mark and clear messages while
\* the stream starts.
InitKeys ==
  InitWith("s0", [Budget(1, 0, 0, MaxWrites, 0, 0) EXCEPT !.reads = 0, !.controls = MaxControls],
           {1})

OutboundSteps(c) ==
  \/ RL_Top(c) \/ ScriptFrame(c) \/ RL_Bind(c) \/ RL_Register(c) \/ RL_Send(c)
  \/ AW_Write(c) \/ WL_Recv(c) \/ WL_Check(c) \/ WL_Write(c) \/ WL_WriteFail(c)
  \/ \E kind \in ControlEvents : App_Control(c, kind)
  \/ \E ok \in BOOLEAN : App_ControlDone(c, ok)

NextKeys == \E c \in Scheduled : OutboundSteps(c)

SpecKeys == InitKeys /\ [][NextKeys]_vars

\* The same while the application closes the connection.
InitSocket ==
  InitWith("s0", [Budget(1, 0, 1, 1, 0, 0) EXCEPT !.reads = 0, !.controls = 1], {1})

NextSocket ==
  \E c \in Scheduled :
    \/ OutboundSteps(c)
    \/ CloseSteps(c) \/ App_CallClose(c) \/ App_CloseReturn(c)
    \/ WL_Done(c) \/ RL_ReadClosed(c) \/ RL_Defer(c) \/ RL_Exit(c)

SpecSocket == InitSocket /\ [][NextSocket]_vars

\* The call system with the application's calls and Twilio's status
\* callbacks; no media stream is attached to a call.
CallBudget ==
  [Budget(0, 0, 0, 0, 0, 0) EXCEPT !.reads = 0, !.makes = MaxCalls,
                                   !.callbacks = MaxCallbacks, !.hangups = MaxHangups,
                                   !.lists = 1]

InitCalls ==
  /\ InitTransport([c \in Conns |-> "idle"], CallBudget, {})
  /\ \E d \in Froms : cs = NewCallSystem(d)

NextCalls ==
  \/ \E from \in Froms, ok \in BOOLEAN, sid \in CallSIDs, status \in NewCallStatuses :
       MakeCall(from, ok, sid, status)
  \/ MakeCallTrack
  \/ \E sid \in CallSIDs, status \in TwilioStatuses : HandleStatusCallback(sid, status)
  \/ ListCalls
  \/ \E o \in CallObjs, ok \in BOOLEAN : Hangup(o, ok)
  \/ HU_End

SpecCalls == InitCalls /\ [][NextCalls]_vars

\* A call is made, the accepted media-stream connection is attached to it
\* and the application hangs up; Twilio may refuse the hang-up.
InitHangup ==
  /\ InitTransport([c \in Conns |-> "idle"],
                   [Budget(0, 0, 0, 0, 0, 0) EXCEPT !.reads = 0, !.makes = 1, !.attaches = 1,
                                                    !.hangups = MaxHangups + 1],
                   {1})
  /\ \E d \in Froms : cs = NewCallSystem(d)

NextHangup ==
  \/ \E from \in Froms, ok \in BOOLEAN, sid \in CallSIDs, status \in NewCallStatuses :
       MakeCall(from, ok, sid, status)
  \/ MakeCallTrack
  \/ \E o \in CallObjs, c \in Scheduled : SetTransport(o, c)
  \/ \E o \in CallObjs, ok \in BOOLEAN : Hangup(o, ok)
  \/ HU_End \/ HU_Return
  \/ \E c \in Scheduled : CloseSteps(c)

SpecHangup == InitHangup /\ [][NextHangup]_vars

\* Inbound calls: the webhook, status callbacks, Answer and Status.
InitInbound ==
  /\ InitTransport([c \in Conns |-> "idle"],
                   [Budget(0, 0, 0, 0, 0, 0) EXCEPT !.reads = 0, !.webhooks = MaxCalls,
                                                    !.callbacks = 1, !.answers = 1,
                                                    !.statuses = 1, !.lists = 1], {})
  /\ \E d \in Froms : cs = NewCallSystem(d)

NextInbound ==
  \/ \E sid \in CallSIDs, herr \in BOOLEAN : HandleIncomingWebhook(sid, herr)
  \/ \E sid \in CallSIDs, status \in TwilioStatuses : HandleStatusCallback(sid, status)
  \/ \E o \in CallObjs : Answer(o) \/ St_RLock(o)
  \/ St_Return
  \/ ListCalls

SpecInbound == InitInbound /\ [][NextInbound]_vars


\* The Go scheduler runs every goroutine that can take a step; a select
\* with several ready cases picks each of them sooner or later. The peer
\* and the application's calls are under no obligation.
LoopFairness(c) ==
  /\ WF_vars(CloseSteps(c))
  /\ WF_vars(ReadLoopSteps(c) \/ RL_ReadClosed(c) \/ RL_Bind(c) \/ RL_Register(c) \/ RL_Audio(c))
  /\ WF_vars(WL_Recv(c) \/ WL_Check(c))
  /\ SF_vars(WL_Done(c))
  /\ WF_vars(App_CloseReturn(c))

InitFairClose == InitWith("any", Budget(1, 0, 1, 0, 0, 0), Scheduled)

FairClose == InitFairClose /\ [][NextConn]_vars /\ \A c \in Scheduled : LoopFairness(c)

InitFair == InitWith("any", Budget(1, MaxAccepts, 1, 0, 0, 1), {})

\* A reader goroutine blocked in Read runs once its receive can proceed.
InitFairRead == InitWith("any", Budget(1, 0, 1, 0, 0, 0), Scheduled)

FairRead ==
  /\ InitFairRead /\ [][NextRead]_vars
  /\ \A c \in Scheduled : LoopFairness(c) /\ WF_vars(AR_Recv(c))

FairSpec ==
  /\ InitFair /\ [][Next]_vars
  /\ \A c \in Scheduled : LoopFairness(c)
  /\ WF_vars(HW_Lookup)
  /\ WF_vars(PC_CloseReturn \/ PC_Return \/ \E s \in StreamSIDs : PC_CallClose(s))

\* ------------------------------------------------------------- the claims
\* the panics of Connection.Close itself: closing a channel a second time
ClosePanics == {"close(done)", "close(audioOut.ch)", "close(events)"}

TeardownCounts(c) ==
  <<conn[c].nclose.runs, conn[c].nclose.done, audioIn[c].nclose, audioOut[c].nclose,
    conn[c].nclose.events, conn[c].nclose.ws, conn[c].nclose.del>>

\* C1: however many callers of Connection.Close run concurrently (the
\* application's and the receive loop's deferred one), the
\* teardown runs at most once and closes the shutdown signal, the outbound
\* buffer, the inbound buffer, the event channel and the socket at most once
\* each and deletes the registry entry at most once; no call panics; and a
\* call has returned only when every one of these has happened exactly once.
C1_CloseRunsOnce ==
  \A c \in Live :
    /\ \A i \in 1..7 : TeardownCounts(c)[i] <= 1
    /\ env.panicAt \notin ClosePanics
    /\ (app[c].closeRet > 0 \/ rl[c].pc = "done") => CloseReturned(c)
    /\ CloseReturned(c) => TeardownCounts(c) = <<1, 1, 1, 1, 1, 1, 1>>

\* C1 witness: two application callers and the receive loop were inside
\* Close together and all three calls have returned.
C1_Witness ==
  \E c \in Live :
    /\ app[c].closeRet = 2 /\ rl[c].pc = "done" /\ ~rl[c].panic
    /\ conn[c].streamSID # ""
    /\ TeardownCounts(c) = <<1, 1, 1, 1, 1, 1, 1>>

LoopsStopped(c) == rl[c].pc = "done" /\ wl[c].pc = "done"

\* C2: a Provider.Close that found a connection in the stream-id map whose
\* Close had not started eventually returns, with every connection that
\* was registered closed and both maps empty.
C2_ProviderCloseReturns ==
  (pcl.pc = "conns" /\ \E s \in pcl.todo : conn[prov.connections[s]].once = "idle")
    ~> (/\ pcl.pc = "idle" /\ pcl.returned > 0
        /\ \A c \in pcl.seen : conn[c].streamSID # "" => CloseReturned(c)
        /\ \A s \in StreamSIDs : prov.connections[s] = NoConn
        /\ \A a \in Addrs : prov.listeners[a] = NoChan)

\* C3: once Provider.Close has returned, every connection that had been
\* accepted when it was called has no running loop and a closed socket.
C3_NoLoopsAfterProviderClose ==
  pcl.returned > 0 => \A c \in pcl.seen : LoopsStopped(c) /\ conn[c].wsClosed

\* C4: when the application's Close starts its teardown while the receive
\* loop is blocked in ReadMessage and the send loop waits in its select,
\* both loops eventually return.
C4_CloseStopsLoops ==
  \A c \in Scheduled :
    (/\ c \in Live
     /\ conn[c].once = "s1" /\ conn[c].runner = "app" /\ rl[c].pc = "read" /\ wl[c].pc = "select")
      ~> (c \in Live /\ LoopsStopped(c))

\* C5: when the receive loop has read connected, start, media x N, dtmf,
\* stop and returned, the event channel was sent exactly Connected,
\* AudioStarted, DTMF, AudioStopped, Disconnected, and nothing is sent later.
C5_EventOrder ==
  \A c \in Live :
    (rl[c].pc = "done" /\ ~rl[c].panic /\ env.peer[c] = "p4")
      => EventTypes(conn[c].events)
           = <<"Connected", "AudioStarted", "DTMF", "AudioStopped", "Disconnected">>

\* C5 witness: the whole sequence with two media frames was read and the
\* loop has returned.
C5_Witness ==
  \E c \in Live :
    rl[c].pc = "done" /\ ~rl[c].panic /\ env.peer[c] = "p4" /\ env.nmedia[c] = 2

\* C6: once a connection's stream id and call id are set, no step changes
\* them (a second start frame included).
C6_IdentityWriteOnce ==
  [][\A c \in Live :
       conn[c].streamSID # ""
         => conn'[c].streamSID = conn[c].streamSID /\ conn'[c].callSID = conn[c].callSID]_vars

\* C7: every entry of the stream-id map refers to a connection whose Close
\* has not finished and whose stream id is the entry's key.
C7_RegistryEntriesLive ==
  \A s \in StreamSIDs :
    prov.connections[s] # NoConn
      => /\ ~CloseReturned(prov.connections[s])
         /\ conn[prov.connections[s]].streamSID = s

\* C8: with nothing taking chunks out, after AudioInCap + 1 writes of
\* distinct chunks the outbound channel holds chunks 2 .. AudioInCap + 1 in
\* order, and every write has returned its full length and no error.
C8_OutboundEvictsOldest ==
  \A c \in Live :
    /\ (app[c].w_pc = "idle" /\ app[c].nwrites >= 1)
         => app[c].w_n = Len(app[c].w_p) /\ app[c].w_err = ""
    /\ (app[c].w_pc = "idle" /\ app[c].nwrites = AudioInCap + 1)
         => audioIn[c].ch = [i \in 1..AudioInCap |-> Chunk(i + 1)]

\* C8 witness: the write that found the channel full has returned.
C8_Witness ==
  \E c \in Live :
    app[c].w_pc = "idle" /\ app[c].nwrites = AudioInCap + 1 /\ app[c].w_p = Chunk(AudioInCap + 1)

\* C9: with nobody reading, after AudioOutCap + 1 media frames were
\* delivered the inbound channel holds chunks 1 .. AudioOutCap in order.
C9_InboundDropsNewest ==
  \A c \in Live :
    (env.nmedia[c] = AudioOutCap + 1 /\ rl[c].pc # "audio")
      => audioOut[c].ch = [i \in 1..AudioOutCap |-> Chunk(i)]

\* C9 witness: the frame that found the channel full has been handled.
C9_Witness ==
  \E c \in Live :
    env.nmedia[c] = AudioOutCap + 1 /\ rl[c].pc = "top" /\ Len(audioOut[c].ch) = AudioOutCap

InChannel(p, ch) == \E i \in 1..Len(ch) : ch[i] = p

\* C10: a Write called after Connection.Close has returned returns 0 and
\* io.ErrClosedPipe, and its chunk is neither queued nor sent.
C10_WriteAfterClose ==
  \A c \in Live :
    (app[c].w_pc = "idle" /\ app[c].nwrites >= 1 /\ app[c].w_late)
      => /\ app[c].w_n = 0 /\ app[c].w_err = "io.ErrClosedPipe"
         /\ ~InChannel(app[c].w_p, audioIn[c].ch)
         /\ wl[c].audio # app[c].w_p
         /\ \A i \in 1..Len(wl[c].sent) : wl[c].sent[i].payload # app[c].w_p

\* C10 witness: a write was accepted before the close and the next one was
\* made after it.
C10_Witness ==
  \E c \in Live :
    app[c].w_pc = "idle" /\ app[c].nwrites = 2 /\ app[c].w_late /\ app[c].closeRet = 1

\* C11: a Read called after Connection.Close has returned returns 0 bytes
\* and io.EOF, whatever audio was queued or left over at the close.
C11_ReadAfterClose ==
  \A c \in Live :
    (app[c].r_pc = "idle" /\ app[c].nreads >= 1 /\ app[c].r_late)
      => app[c].r_n = 0 /\ app[c].r_err = "io.EOF"

\* C12: a reader that is blocked in Read on an empty inbound channel when
\* Connection.Close closes that channel eventually returns 0 bytes and io.EOF.
C12_BlockedReaderWoken ==
  \A c \in Scheduled :
    (c \in Live /\ app[c].r_pc = "recv" /\ audioOut[c].closed /\ audioOut[c].ch = <<>>)
      ~> (c \in Live /\ app[c].r_pc = "idle" /\ app[c].r_n = 0 /\ app[c].r_err = "io.EOF")

\* C13: as long as the peer has sent only malformed frames (undecodable,
\* unknown event, start/media/dtmf without the nested object, empty
\* payload) and nobody has called Close, no event was sent, the connection
\* has no ids, no audio and no registry entry, no handler was called and the
\* receive loop is still reading; and when a stop frame follows and the
\* loop returns, the events sent are AudioStopped, Disconnected.
C13_MalformedDiscarded ==
  \A c \in Live :
    /\ (conn[c].made /\ env.peer[c] = "m0" /\ conn[c].once = "idle")
         => /\ conn[c].events = <<>>
            /\ conn[c].streamSID = "" /\ conn[c].callSID = ""
            /\ audioOut[c].ch = <<>>
            /\ env.hcalls[c] = <<>>
            /\ \A s \in StreamSIDs : prov.connections[s] = NoConn
            /\ rl[c].pc \in {"top", "read"}
    /\ (rl[c].pc = "done" /\ ~rl[c].panic /\ env.peer[c] = "m1")
         => EventTypes(conn[c].events) = <<"AudioStopped", "Disconnected">>

\* C13 witness: MaxFrames malformed frames and then the stop frame were
\* read and the loop has returned.
C13_Witness ==
  \E c \in Live :
    /\ rl[c].pc = "done" /\ ~rl[c].panic /\ env.peer[c] = "m1" /\ env.left.frames = 0
    /\ Len(conn[c].events) = 2

\* C14: when the receive loop has ended after a read failure that is not a
\* normal or going-away closure, exactly one Error event was sent; when it
\* has ended after such a closure or after a stop frame, none was.
C14_ErrorEventOnReadFailure ==
  \A c \in Live :
    rl[c].pc \in {"done", "panicked"}
      => /\ rl[c].exit = "abnormal" => NumEvents(c, "Error") = 1
         /\ rl[c].exit \in {"normal", "stop"} => NumEvents(c, "Error") = 0

\* C15: when the event channel has been closed by the receive loop's own
\* Close after a stop frame or a normal/going-away closure of the socket,
\* the last event sent on it is Disconnected.
C15_TerminalEventsBeforeClose ==
  \A c \in Live :
    (conn[c].eventsClosed /\ conn[c].runner = "readLoop" /\ rl[c].exit \in {"stop", "normal"})
      => /\ conn[c].events # <<>>
         /\ conn[c].events[Len(conn[c].events)].type = "Disconnected"

\* The Closed state of a connection: flag set, both audio channels, the
\* event channel and the socket closed, Close finished, no entry under
\* its stream id.
Closed(c) ==
  /\ conn[c].closed /\ audioIn[c].closed /\ audioOut[c].closed
  /\ conn[c].eventsClosed /\ conn[c].wsClosed /\ CloseReturned(c)
  /\ conn[c].streamSID \in StreamSIDs => prov.connections[conn[c].streamSID] # c

\* C16: whenever the receive loop returns (after a stop frame, a read
\* failure or the observed shutdown signal; not by a panic), the connection
\* eventually is Closed.
C16_LoopExitLeadsToClosed ==
  \A c \in Scheduled :
    (c \in Live /\ rl[c].pc = "defer" /\ ~rl[c].panic) ~> (c \in Live /\ Closed(c))

Queued(c) == {i \in ChanIds : \E j \in 1..Len(prov.chans[i].q) : prov.chans[i].q[j] = c}

\* C17: HandleWebSocket's notification never waits (its select can always
\* proceed); a connection for whose address no listener was registered, or
\* whose listener's queue held ListenerCap connections, is in no
\* queue, yet its two loops were started and, once its start frame has been
\* handled, the stream-id map holds it under its stream id.
C17_AcceptNeverBlocks ==
  /\ hw.pc = "notify" => ENABLED HW_Notify
  /\ \A c \in Conns :
       hw.res[c] \in {"nolistener", "full"}
         => /\ Queued(c) = {}
            /\ c \in DOMAIN rl /\ c \in DOMAIN wl
            /\ rl[c].pc # "none" /\ wl[c].pc # "none"
            /\ (conn[c].streamSID # "" /\ rl[c].pc \in {"send", "top", "read"})
                 => prov.connections[conn[c].streamSID] = c

\* C17 witness: a connection that found the queue full, and one that found
\* no listener, and one of them is registered under its stream id.
C17_Witness ==
  /\ \E c \in Live : hw.res[c] = "full" /\ hw.pc = "idle"
  /\ \E c \in Live : hw.res[c] = "nolistener"
  /\ \E c \in Live :
       /\ hw.res[c] \in {"nolistener", "full"}
       /\ conn[c].streamSID # "" /\ prov.connections[conn[c].streamSID] = c

\* C18: a connection whose HandleWebSocket call began after the i-th Listen
\* for the address had returned is in no queue older than the i-th, and no
\* connection is in two queues.
C18_ListenReplacesQueue ==
  \A c \in Live :
    /\ \A i \in Queued(c) : hw.gen[c] <= i
    /\ Cardinality(Queued(c)) <= 1

\* C18 witness: the first queue got a connection, Listen was called again,
\* and a connection accepted after that is in the second queue.
C18_Witness ==
  /\ prov.chans[1].q # <<>>
  /\ \E c \in Live : hw.gen[c] = 2 /\ Queued(c) = {2}

\* C19: Provider.Close never closes a listener channel or a part of a
\* connection a second time (either would panic), and when a second call
\* returns after the first has returned, both maps are empty.
C19_ProviderCloseIdempotent ==
  /\ [](/\ env.panicAt \notin ClosePanics \cup {"close(listener)"}
        /\ \A c \in Live : \A i \in 1..7 : TeardownCounts(c)[i] <= 1)
  /\ [][(pcl.returned = 1 /\ pcl'.returned = 2)
          => /\ \A s \in StreamSIDs : prov'.connections[s] = NoConn
             /\ \A a \in Addrs : prov'.listeners[a] = NoChan]_vars

\* C19 witness: the second call has returned; the first one had closed a
\* listener channel and a closed connection exists.
C19_Witness ==
  /\ pcl.returned = 2 /\ pcl.pc = "idle"
  /\ \E i \in ChanIds : prov.chans[i].closed /\ prov.chans[i].closer = 1
  /\ \E c \in Live : conn[c].made /\ CloseReturned(c)

\* The call system is closed: a call is made, its media stream connects,
\* starts and may be attached to the call, and the application calls the
\* call system's Close.
InitFairCalls ==
  /\ InitTransport([c \in Conns |-> "s0"],
                   [Budget(1, 0, 0, 0, 0, 0) EXCEPT !.reads = 0, !.makes = 1, !.attaches = 1,
                                                    !.cscloses = 1],
                   Scheduled)
  /\ \E d \in Froms : cs = NewCallSystem(d)

CallSystemClose ==
  \/ \E o \in CallObjs, ok \in BOOLEAN : CC_Hangup(o, ok)
  \/ CC_HangupEnd \/ CC_HangupReturn \/ CC_Clear \/ CC_TransportClose \/ CC_Return

TransportClose == PC_CloseReturn \/ PC_Return \/ \E s \in StreamSIDs : PC_CallClose(s)

NextFairCalls ==
  \/ \E from \in Froms, ok \in BOOLEAN, sid \in CallSIDs, status \in NewCallStatuses :
       MakeCall(from, ok, sid, status)
  \/ MakeCallTrack
  \/ \E o \in CallObjs, c \in Scheduled : SetTransport(o, c)
  \/ CC_Lock
  \/ CallSystemClose
  \/ TransportClose
  \/ \E c \in Scheduled :
       \/ CloseSteps(c) \/ WriteLoopIdle(c)
       \/ RL_Top(c) \/ ScriptFrame(c) \/ RL_Bind(c) \/ RL_Register(c) \/ RL_Send(c)
       \/ RL_ReadClosed(c) \/ RL_Defer(c) \/ RL_Exit(c)

FairCalls ==
  /\ InitFairCalls /\ [][NextFairCalls]_vars
  /\ \A c \in Scheduled : LoopFairness(c)
  /\ WF_vars(MakeCallTrack)
  /\ WF_vars(CallSystemClose)
  /\ WF_vars(TransportClose)

IsDTMF(ev) == ev.type = "DTMF"

\* C20: when the receive loop reads p.dtmfHandler, the DTMF event with the
\* frame's digit is the last event sent; no handler call is made while none
\* is registered; once one is registered, every DTMF frame finished since
\* (before the next frame is read) has made exactly one call, and the calls
\* carry the owning connection and, in order, the digits of those frames.
C20_DTMFEventThenHandler ==
  \A c \in Live :
    LET sent == SelectSeq(conn[c].events, IsDTMF)
        h == env.hcalls[c]
    IN /\ rl[c].pc = "handler"
            => /\ conn[c].events # <<>>
               /\ conn[c].events[Len(conn[c].events)] = Event("DTMF", rl[c].msg.digit)
       /\ ~prov.dtmfHandler => h = <<>>
       /\ prov.dtmfHandler => Len(h) = DTMFDone(c) - prov.before[c]
       /\ Len(h) <= DTMFDone(c)
       /\ \A i \in 1..Len(h) : h[i] = <<c, sent[DTMFDone(c) - Len(h) + i].data>>

\* C20 witness: two DTMF frames with different digits were handled, the
\* first without a handler, the second with the handler called.
C20_Witness ==
  \E c \in Live :
    /\ rl[c].pc = "top" /\ NumEvents(c, "DTMF") = 2
    /\ conn[c].events[1].data # conn[c].events[2].data
    /\ Len(env.hcalls[c]) = 1

\* C22: the effects of Connection.Close become visible in program order:
\* the done channel is closed only on a connection marked closed, the
\* outbound buffer only after done, the inbound buffer only after the
\* outbound one, the event channel only after the inbound buffer, the
\* socket only after the event channel, and the registry entry is deleted
\* only after the socket is closed.
C22_CloseStepOrder ==
  \A c \in Live :
    /\ conn[c].doneClosed => conn[c].closed
    /\ audioIn[c].closed => conn[c].doneClosed
    /\ audioOut[c].closed => audioIn[c].closed
    /\ conn[c].eventsClosed => audioOut[c].closed
    /\ conn[c].wsClosed => conn[c].eventsClosed
    /\ conn[c].nclose.del > 0 => conn[c].wsClosed

\* C22 witness: a teardown that has closed the event channel and not yet
\* the socket, on a connection that was registered.
C22_Witness ==
  \E c \in Live :
    /\ conn[c].eventsClosed /\ ~conn[c].wsClosed
    /\ conn[c].streamSID \in StreamSIDs
    /\ prov.connections[conn[c].streamSID] = c

\* C23: the receive loop waits nowhere but in the socket read and the send
\* loop nowhere but in its select: a receive loop that stands at an event
\* send, and a send loop that stands at its closed check or at the socket
\* write, can take their next step.
C23_LoopsSuspendOnlyAtReadAndSelect ==
  \A c \in Live :
    /\ rl[c].pc = "send" => ENABLED RL_Send(c)
    /\ wl[c].pc = "check" => ENABLED WL_Check(c)
    /\ wl[c].pc = "write" => ENABLED (WL_Write(c) \/ WL_WriteFail(c))

\* the bytes of a sequence of chunks, in order
RECURSIVE Flatten(_)
Flatten(q) == IF q = <<>> THEN <<>> ELSE Head(q) \o Flatten(Tail(q))

\* the first k chunks the peer sent in valid media frames
SentAudio(k) == [i \in 1..k |-> Chunk(i)]

\* C26: a media frame whose payload is not base64 is dropped alone. As long
\* as nothing overflows, the bytes the application has read, followed by the
\* rest of a partly read chunk and by the queued chunks, are exactly the
\* audio of the valid frames handled so far, in arrival order, whatever
\* undecodable frames came in between; no media frame makes an event and
\* none ends the receive loop.
C26_UndecodableAudioDroppedAlone ==
  \A c \in Live :
    LET k == env.nmedia[c] - (IF rl[c].pc = "audio" THEN 1 ELSE 0) IN
      /\ app[c].r_log \o audioOut[c].buffer \o Flatten(audioOut[c].ch) = Flatten(SentAudio(k))
      /\ conn[c].events = <<>>
      /\ rl[c].pc \in {"top", "read", "audio"}
      /\ rl[c].pc = "audio" => rl[c].msg = MediaFrame(Chunk(env.nmedia[c]))

\* C26 witness: undecodable frames arrived before the first valid frame,
\* between the first and the second, and after the second; both valid
\* chunks are queued and the loop is about to read again.
C26_Witness ==
  \E c \in Live :
    /\ env.badAt[c] = {0, 1, 2}
    /\ audioOut[c].ch = SentAudio(2)
    /\ rl[c].pc = "read" /\ env.left.frames = 2 * MaxAudio - 3

\* C24: neither buffer makes its producer wait or fail. A Write that found
\* the outbound buffer full can evict and then enqueue at once, whatever the
\* send loop and Close do meanwhile; the receive loop's enqueue into the
\* inbound buffer is a select with a default, which enqueues or drops as long
\* as the channel is open: it is never attempted on a closed inbound buffer.
C24_BufferWritesNeverWait ==
  \A c \in Live :
    /\ Running /\ app[c].w_pc = "evict" => ENABLED AW_Evict(c)
    /\ Running /\ app[c].w_pc = "send" => ENABLED AW_Send(c)
    /\ rl[c].pc = "audio" => ~audioOut[c].closed

\* a sequence of bytes in strictly increasing order (the bytes of the k-th
\* chunk are 2k-1 and 2k, so this is the order of writing or of arrival)
InOrder(bytes) == \A i \in 1..(Len(bytes) - 1) : bytes[i] < bytes[i + 1]

\* q holds whole chunks out of the first n, in increasing order
ChunkNo(ch) == (ch[1] + 1) \div 2
ChunksInOrder(q, n) ==
  \A i \in DOMAIN q :
    /\ q[i] # <<>> /\ ChunkNo(q[i]) \in 1..n /\ q[i] = Chunk(ChunkNo(q[i]))
    /\ i > 1 => ChunkNo(q[i - 1]) < ChunkNo(q[i])

\* C25: both buffers keep the order. The bytes the application has read
\* followed by the unread rest of the last chunk are audio the peer sent, in
\* arrival order; the queued inbound chunks are whole chunks the peer sent,
\* in arrival order and later than every byte read. The chunks the send loop
\* has taken followed by the chunks still queued are whole written chunks in
\* the order of the Write calls.
C25_BuffersNeverReorder ==
  \A c \in Live :
    LET read == app[c].r_log \o audioOut[c].buffer
        inq == audioOut[c].ch
    IN /\ InOrder(read)
       /\ \A i \in DOMAIN read : read[i] \in 1..(2 * env.nmedia[c])
       /\ ChunksInOrder(inq, env.nmedia[c])
       /\ read # <<>> /\ inq # <<>> => read[Len(read)] < inq[1][1]
       /\ ChunksInOrder(wl[c].taken \o audioIn[c].ch, app[c].nwrites)

\* C25 witness: the send loop took the first chunk, the second was evicted
\* by the Write that found the buffer full, and the loop took the third.
C25_Witness ==
  \E c \in Live :
    /\ wl[c].taken = <<Chunk(1), Chunk(3)>>
    /\ app[c].nwrites = AudioInCap + 2

\* the inbound counterpart: the application read the first byte of the first
\* chunk, chunk 101 was dropped on the full buffer and chunk 102 is queued
\* behind chunk 100
C25_WitnessInbound ==
  \E c \in Live :
    /\ app[c].r_log = <<1>> /\ audioOut[c].buffer = <<2>>
    /\ Len(audioOut[c].ch) = AudioOutCap
    /\ audioOut[c].ch[AudioOutCap] = Chunk(AudioOutCap + 2)
    /\ audioOut[c].ch[AudioOutCap - 1] = Chunk(AudioOutCap)

\* C27: where nothing else ends the send loop, a send loop that has
\* returned (its socket write failed) has left the connection as it was:
\* not marked closed, no teardown started, socket, buffers and channels
\* open, the receive loop still running, no Error or Disconnected event, the
\* registry entry of a started stream kept; and a Write called after the
\* loop returned still reports success for the whole chunk.
C27_WriteFailureEndsOnlySendLoop ==
  \A c \in Live :
    wl[c].pc = "done" =>
      /\ ~conn[c].closed /\ conn[c].once = "idle"
      /\ ~conn[c].doneClosed /\ ~conn[c].eventsClosed /\ ~conn[c].wsClosed
      /\ ~audioIn[c].closed /\ ~audioOut[c].closed
      /\ rl[c].pc \in {"top", "read", "bind", "register", "send"} /\ rl[c].exit = ""
      /\ NumEvents(c, "Error") = 0 /\ NumEvents(c, "Disconnected") = 0
      /\ NumEvents(c, "AudioStarted") = 1 => prov.connections[conn[c].streamSID] = c
      /\ app[c].w_orphan /\ app[c].w_pc = "idle"
           => app[c].w_n = Len(app[c].w_p) /\ app[c].w_err = ""

\* C27 witness: the write of the first chunk failed; the stream was started
\* and registered; two more chunks were written after the loop had returned
\* and stay queued.
C27_Witness ==
  \E c \in Live :
    /\ wl[c].pc = "done" /\ wl[c].sent = <<>> /\ wl[c].taken = <<Chunk(1)>>
    /\ app[c].w_orphan /\ app[c].w_pc = "idle" /\ app[c].nwrites = MaxWrites + 1
    /\ Len(audioIn[c].ch) = MaxWrites
    /\ NumEvents(c, "AudioStarted") = 1 /\ rl[c].pc = "read"

\* C21: ListCalls returns active calls only: no call in a list it returned
\* had, at that moment, a status of a call that is over.
C21_ListCallsOnlyActive ==
  \A e \in cs.ls.got : e.status \notin TerminalStatuses

\* C28: a status callback for a tracked SID sets that call's status to
\* mapCallStatus of the reported status, removes the call from the tracked
\* set exactly when that is Ended, and changes no other call; a callback for
\* an untracked SID changes neither the tracked set nor any call.
C28_StatusCallback ==
  [][env'.left.callbacks = env.left.callbacks - 1 =>
       LET sid == cs'.cb.sid
           st == mapCallStatus(cs'.cb.status)
           o == cs.calls[sid]
       IN IF o = NoCall
            THEN cs'.calls = cs.calls /\ cs'.call = cs.call
            ELSE /\ cs'.call = [cs.call EXCEPT ![o].status = st]
                 /\ cs'.calls = IF st = "Ended" THEN [cs.calls EXCEPT ![sid] = NoCall]
                                                ELSE cs.calls]_vars

\* C28 witness: the last callback reported "completed" for a tracked call,
\* which is now ended and untracked, after a callback that reported "busy"
\* for the other call, which is busy and still tracked.
C28_Witness ==
  /\ cs.cb.status = "completed" /\ cs.calls[cs.cb.sid] = NoCall
  /\ env.left.callbacks = 0
  /\ \E o \in CallObjs : cs.call[o].id = cs.cb.sid /\ cs.call[o].status = "Ended"
  /\ \E sid \in Tracked : cs.call[cs.calls[sid]].status = "Busy"

\* C29: a MakeCall without a from number and without a default returns an
\* error without a request to Twilio; any other MakeCall sends one request;
\* a MakeCall that returns an error leaves the tracked calls and the Call
\* objects as they were; a successful one tracks the new call under the SID
\* Twilio returned and changes no other entry.
C29_MakeCall ==
  [][/\ env'.left.makes = env.left.makes - 1 =>
          /\ cs'.calls = cs.calls
          /\ (cs'.mk.from = "" /\ cs.defaultFrom = "")
               => cs'.mk.res = "nofrom" /\ cs'.nreq = cs.nreq
          /\ ~(cs'.mk.from = "" /\ cs.defaultFrom = "")
               => cs'.mk.res # "nofrom" /\ cs'.nreq = cs.nreq + 1
          /\ cs'.mk.res \in {"nofrom", "failed"} => cs'.mk.pc = "idle" /\ cs'.call = cs.call
          /\ cs'.mk.res = "" => cs'.mk.pc = "track"
     /\ (cs.mk.pc = "track" /\ cs'.mk.pc = "idle") =>
          /\ cs'.mk.res = "ok"
          /\ cs'.calls = [cs.calls EXCEPT ![cs.call[cs.mk.o].id] = cs.mk.o]
          /\ cs'.call = cs.call]_vars

\* C29 witness: without a default number, a first MakeCall with a from
\* number was tracked and a second one without a from number has returned
\* its error; one request was sent and one call is tracked.
C29_Witness ==
  /\ cs.defaultFrom = "" /\ cs.mk.pc = "idle" /\ cs.mk.res = "nofrom"
  /\ env.left.makes = 0 /\ cs.nreq = 1
  /\ Cardinality(Tracked) = 1

\* C30: a call of the call system's Close returns (unless the process has
\* ended meanwhile), and when it returns a hang-up request has been issued
\* for every call that was tracked, no call is tracked and the transport
\* Provider's Close has returned.
C30_CallSystemCloseReturns ==
  (cs.cl.pc = "calls")
    ~> (\/ env.crashed
        \/ /\ cs.cl.pc = "idle" /\ cs.cl.returned > 0
           /\ cs.cl.hung = cs.cl.seen
           /\ Tracked = {}
           /\ pcl.returned > 0)

\* C31: a Hangup whose request Twilio refuses returns the error at once
\* and changes neither a Call (status, transport, lock) nor a connection.
C31_FailedHangupChangesNothing ==
  [][(env'.left.hangups = env.left.hangups - 1 /\ cs'.hu.err) =>
       /\ cs'.hu.pc = "idle" /\ cs'.hu.res = "failed"
       /\ cs'.call = cs.call
       /\ cs'.calls = cs.calls
       /\ conn' = conn]_vars

\* C31 witness: the hang-up of a tracked call with an attached, open
\* connection has failed; the call is not ended and the connection's Close
\* has not been called.
C31_Witness ==
  /\ cs.hu.pc = "idle" /\ cs.hu.res = "failed" /\ cs.hu.err
  /\ cs.call[cs.hu.o].status # "Ended"
  /\ cs.call[cs.hu.o].transport \in Live
  /\ conn[cs.call[cs.hu.o].transport].once = "idle"
  /\ cs.calls[cs.call[cs.hu.o].id] = cs.hu.o

\* C32: the receive loop never stands at a send on the event channel, nor
\* at an enqueue into the inbound buffer, when Close has closed that channel.
C32_NoSendAfterClose ==
  \A c \in Live :
    /\ rl[c].pc = "send" => ~conn[c].eventsClosed
    /\ rl[c].pc = "audio" => ~audioOut[c].closed
    /\ ~rl[c].panic

\* C33: HandleWebSocket never stands at its push onto a listener queue
\* that Provider.Close has closed.
C33_NoPushOnClosedListener ==
  hw.pc = "notify" => ~prov.chans[hw.listener].closed

\* C34: every media frame the send loop has written carries a chunk the
\* application wrote, no chunk twice; and once the outbound writer is closed
\* and drained the send loop waits in its select: it takes nothing from the
\* closed channel and writes no frame.
C34_SentFramesAreWrittenChunks ==
  \A c \in Live :
    /\ \A i \in DOMAIN wl[c].sent :
         /\ \E k \in 1..app[c].nwrites : wl[c].sent[i].payload = Chunk(k)
         /\ \A j \in DOMAIN wl[c].sent : wl[c].sent[i].payload = wl[c].sent[j].payload => i = j
    /\ (audioIn[c].closed /\ audioIn[c].ch = <<>> /\ wl[c].pc = "select") => ~ENABLED WL_Recv(c)

\* C35: every frame written to the socket, by the send loop or by SendMark
\* and Clear, carries the stream id that the start frame bound.
C35_OutboundFramesKeyed ==
  \A c \in Live :
    /\ \A i \in DOMAIN wl[c].sent :
         wl[c].sent[i].streamSid \in StreamSIDs /\ wl[c].sent[i].streamSid = conn[c].streamSID
    /\ \A i \in DOMAIN app[c].c_sent :
         app[c].c_sent[i].streamSid \in StreamSIDs
           /\ app[c].c_sent[i].streamSid = conn[c].streamSID

\* C36: the send loop never calls WriteJSON while a SendMark or Clear is
\* inside its WriteJSON; the send loop never stands at its WriteJSON call
\* with the socket closed, and no SendMark or Clear starts its write on a
\* socket that Close has closed.
C36_OneSocketWriter ==
  /\ [](\A c \in Live :
          /\ wl[c].pc = "write" => ~conn[c].wsClosed
          /\ app[c].c_pc = "writing" => ~app[c].c_late)
  /\ [][\A c \in Live :
          (c \in DOMAIN wl' /\ wl[c].pc = "write" /\ wl'[c].pc # "write")
            => app[c].c_pc # "writing"]_vars

\* C37: when Provider.Close returns, every queue that Listen has returned
\* is closed, a queue replaced by a later Listen on the same address
\* included.
C37_CloseClosesEveryQueue ==
  [][pcl'.returned = pcl.returned + 1 =>
       \A ch \in ChanIds : prov.chans[ch].made => prov'.chans[ch].closed]_vars

\* C38: a webhook whose handler returns an error returns no call and no
\* TwiML and leaves the tracked set as it was before the webhook.
C38_FailedWebhookTracksNothing ==
  [][(env'.left.webhooks = env.left.webhooks - 1 /\ cs'.wh.err) =>
       /\ cs'.wh.call = NoCall /\ cs'.wh.twiml = ""
       /\ cs'.calls = cs.calls]_vars

\* C39: a call's status changes only in a step that takes the call's own
\* lock, so never while Status() or another holder has that lock.
C39_StatusUnderCallLock ==
  [][\A o \in CallObjs :
       (cs.call[o].made /\ cs'.call[o].status # cs.call[o].status) => cs.call[o].mu = "free"]_vars

====
